---------------------------- MODULE Spec2Model ----------------------------
(***************************************************************************)
(* Model of scenegen: the rule-based scene selector (scene_selector.py),   *)
(* the QLC+ workspace writer (qlc_io.py), the semantic-to-channel mapper   *)
(* (scene_mapper.py) and the generation pipeline (generator.py).           *)
(*                                                                         *)
(* An Optional[...] value of the source is a sequence of length 0 (None)   *)
(* or 1 (the value).                                                       *)
(***************************************************************************)
EXTENDS Integers, Sequences, FiniteSets, TLC

VARIABLES
    pc,          \* position inside the running function
    context,     \* SceneContext handed to select_scene
    catalog,     \* the catalog handed to select_scene
    initial,     \* select_scene: local `initial`
    candidates,  \* select_scene / _weighted_choice_by_energy: `candidates`
    ticket,      \* floor(random() * total) drawn inside random.choices
    chosen,      \* the Optional[SemanticScene] returned
    files,       \* the file system: path -> Optional[file content]
    args,        \* the arguments of write_scenes_to_qlc
    root,        \* write_scenes_to_qlc: the parsed tree (Optional[element])
    loc,         \* write_scenes_to_qlc: its other local variables
    created,     \* history: the attributes of the Function elements built so far
    before,      \* history: the file system when write_scenes_to_qlc is called
    mapper,      \* apply_scene: its arguments and the SceneSpec it returns
    gen          \* generate_scenes_for_song: its arguments, locals and result

selVars == <<context, catalog, initial, candidates, ticket, chosen>>
mergeVars == <<files, args, root, loc, created, before>>
vars == <<pc, selVars, mergeVars, mapper, gen>>

\* The variables of the function that is not running.
SelIdle ==
    /\ context = <<>> /\ catalog = <<>> /\ initial = <<>>
    /\ candidates = <<>> /\ ticket = 0 /\ chosen = <<>>
MergeIdle ==
    /\ files = <<>> /\ args = <<>> /\ root = <<>> /\ loc = <<>>
    /\ created = <<>> /\ before = <<>>
MapIdle == mapper = <<>>
GenIdle == gen = <<>>

-----------------------------------------------------------------------------
(* Bounds of the model.                                                    *)

MaxCatalog == 2
MaxCandidates == 4
MaxChildren == 3
MaxScenes == 2
MaxTargetChildren == 1
MaxFixtures == 2
MaxNames == 2
MaxSweepFixtures == 3
MaxContexts == 2

-----------------------------------------------------------------------------
(* Input domains.                                                          *)

None == <<>>
Some(v) == <<v>>

\* Python truthiness of an Optional[str]: None and "" are both false.
Truthy(opt) == opt # None /\ opt[1] # ""

Abs(n) == IF n < 0 THEN -n ELSE n
Max2(a, b) == IF a >= b THEN a ELSE b

Energies == 1..5
PaletteKeys == {"warm", "cool"}
SceneNames == {"a", "b"}
StrobeTags == {"none", "fast"}
FocusTags == {"wash", "puntuales", "special", "mixed"}

SemanticScene == [name: SceneNames, energy: Energies, palette: PaletteKeys,
                  strobe: StrobeTags, focus: FocusTags]

SceneContext == [energy: Energies,
                 last_palette: {None, Some("")} \cup {Some(p) : p \in PaletteKeys},
                 last_scene: {None, Some("")} \cup {Some(n) : n \in SceneNames},
                 is_drop: BOOLEAN,
                 strobe_allowed: BOOLEAN]

\* The catalog entries the selector is exercised on: for every filter there
\* is an entry that passes it and one that fails it.
ScenePool ==
    { [name |-> "a", energy |-> 3, palette |-> "warm", strobe |-> "none", focus |-> "wash"],
      [name |-> "b", energy |-> 3, palette |-> "cool", strobe |-> "none", focus |-> "wash"],
      [name |-> "b", energy |-> 2, palette |-> "warm", strobe |-> "fast", focus |-> "puntuales"],
      [name |-> "a", energy |-> 4, palette |-> "cool", strobe |-> "none", focus |-> "special"],
      [name |-> "a", energy |-> 1, palette |-> "cool", strobe |-> "fast", focus |-> "wash"],
      [name |-> "b", energy |-> 5, palette |-> "warm", strobe |-> "none", focus |-> "mixed"],
      [name |-> "a", energy |-> 2, palette |-> "warm", strobe |-> "none", focus |-> "wash"],
      [name |-> "b", energy |-> 4, palette |-> "cool", strobe |-> "fast", focus |-> "puntuales"] }

SeqsUpTo(S, n) == UNION { [1..k -> S] : k \in 0..n }
Range(seq) == { seq[i] : i \in 1..Len(seq) }

-----------------------------------------------------------------------------
(* scene_selector.py                                                       *)

_filter_by_energy(scenes, target, delta) ==
    SelectSeq(scenes, LAMBDA s : Abs(s.energy - target) <= delta)

FilterPalette(scenes, ctx) ==
    IF Truthy(ctx.last_palette)
    THEN SelectSeq(scenes, LAMBDA s : s.palette # ctx.last_palette[1])
    ELSE scenes

\* Mutant of FilterLastScene: the comparison inverted (== for !=).
FilterLastSceneInverted(scenes, ctx) ==
    IF Truthy(ctx.last_scene)
    THEN SelectSeq(scenes, LAMBDA s : s.name = ctx.last_scene[1])
    ELSE scenes

FilterLastScene(scenes, ctx) ==
    IF Truthy(ctx.last_scene)
    THEN SelectSeq(scenes, LAMBDA s : s.name # ctx.last_scene[1])
    ELSE scenes

FilterWash(scenes, ctx) ==
    IF ctx.energy < 3
    THEN SelectSeq(scenes, LAMBDA s : s.focus = "wash")
    ELSE scenes

\* Mutant of FilterDrop: a drop also keeps the wash scenes.
FilterDropOrWash(scenes, ctx) ==
    IF ctx.is_drop
    THEN SelectSeq(scenes, LAMBDA s : s.focus \in {"puntuales", "special", "wash"})
    ELSE scenes

FilterDrop(scenes, ctx) ==
    IF ctx.is_drop
    THEN SelectSeq(scenes, LAMBDA s : s.focus \in {"puntuales", "special"})
    ELSE scenes

\* Mutant of FilterStrobe: strobe_allowed is never consulted.
FilterStrobeIgnored(scenes, ctx) == scenes

FilterStrobe(scenes, ctx) ==
    IF ~ctx.strobe_allowed
    THEN SelectSeq(scenes, LAMBDA s : s.strobe = "none")
    ELSE scenes

\* Mutant of Relax: no fallback at all.
RelaxNever(cands, init) == cands

\* Mutant of Relax: the fallback keeps the energy window.
RelaxToEnergyWindow(cands, init) ==
    IF cands = <<>> THEN _filter_by_energy(init, context.energy, 1) ELSE cands

\* if not candidates: candidates = initial
Relax(cands, init) == IF cands = <<>> THEN init ELSE cands

\* Mutant of Weight: no floor of 1 under the weight.
WeightNoFloor(scene, target_energy) == Max2(0, 3 - Abs(scene.energy - target_energy))

\* Mutant of Weight: the exact match weighs 2, not 3.
WeightFromTwo(scene, target_energy) == Max2(1, 2 - Abs(scene.energy - target_energy))

\* weights.append(max(1, 3 - diff))
Weight(scene, target_energy) == Max2(1, 3 - Abs(scene.energy - target_energy))

Weights(cands, target_energy) ==
    [i \in 1..Len(cands) |-> Weight(cands[i], target_energy)]

\* itertools.accumulate(weights), as random.choices computes it
RECURSIVE SumTo(_, _)
SumTo(w, i) == IF i = 0 THEN 0 ELSE SumTo(w, i - 1) + w[i]

CumWeights(w) == [i \in 1..Len(w) |-> SumTo(w, i)]

\* bisect_right(cum_weights, x, 0, n - 1): the first position whose
\* cumulative weight exceeds x, the last position when there is none.
Bisect(cum, x) ==
    LET above == {i \in 1..Len(cum) : cum[i] > x}
    IN  IF above = {} THEN Len(cum)
        ELSE CHOOSE i \in above : \A j \in above : i <= j

\* random.choices(candidates, weights, k=1)[0] for the draw `t` of
\* floor(random() * total), 0 <= t < total.
ChoiceFor(cands, target_energy, t) ==
    cands[Bisect(CumWeights(Weights(cands, target_energy)), t)]

Total(cands, target_energy) ==
    SumTo(Weights(cands, target_energy), Len(cands))

-----------------------------------------------------------------------------
(* select_scene, one action per statement.                                 *)

SelInit ==
    /\ pc = "select"
    /\ context \in SceneContext
    /\ catalog \in SeqsUpTo(ScenePool, MaxCatalog)
    /\ initial = <<>>
    /\ candidates = <<>>
    /\ ticket = 0
    /\ chosen = None
    /\ MergeIdle /\ MapIdle /\ GenIdle

\* initial = list(catalog); candidates = _filter_by_energy(initial, ...)
EnergyStep ==
    /\ pc = "select"
    /\ initial' = catalog
    /\ candidates' = _filter_by_energy(catalog, context.energy, 1)
    /\ pc' = "palette"
    /\ UNCHANGED <<context, catalog, ticket, chosen>>
    /\ UNCHANGED <<mergeVars, mapper, gen>>

PaletteStep ==
    /\ pc = "palette"
    /\ candidates' = FilterPalette(candidates, context)
    /\ pc' = "last_scene"
    /\ UNCHANGED <<context, catalog, initial, ticket, chosen>>
    /\ UNCHANGED <<mergeVars, mapper, gen>>

LastSceneStep ==
    /\ pc = "last_scene"
    /\ candidates' = FilterLastScene(candidates, context)
    /\ pc' = "wash"
    /\ UNCHANGED <<context, catalog, initial, ticket, chosen>>
    /\ UNCHANGED <<mergeVars, mapper, gen>>

WashStep ==
    /\ pc = "wash"
    /\ candidates' = FilterWash(candidates, context)
    /\ pc' = "drop"
    /\ UNCHANGED <<context, catalog, initial, ticket, chosen>>
    /\ UNCHANGED <<mergeVars, mapper, gen>>

DropStep ==
    /\ pc = "drop"
    /\ candidates' = FilterDrop(candidates, context)
    /\ pc' = "strobe"
    /\ UNCHANGED <<context, catalog, initial, ticket, chosen>>
    /\ UNCHANGED <<mergeVars, mapper, gen>>

StrobeStep ==
    /\ pc = "strobe"
    /\ candidates' = FilterStrobe(candidates, context)
    /\ pc' = "relax"
    /\ UNCHANGED <<context, catalog, initial, ticket, chosen>>
    /\ UNCHANGED <<mergeVars, mapper, gen>>

RelaxStep ==
    /\ pc = "relax"
    /\ candidates' = Relax(candidates, initial)
    /\ pc' = "choice"
    /\ UNCHANGED <<context, catalog, initial, ticket, chosen>>
    /\ UNCHANGED <<mergeVars, mapper, gen>>

\* Mutant of WeightedChoice: the selector records its choice in the context.
ChoiceRecordsLast ==
    /\ pc = "choice"
    /\ IF candidates = <<>>
       THEN /\ chosen' = None
            /\ ticket' = 0
            /\ UNCHANGED context
       ELSE \E t \in 0..(Total(candidates, context.energy) - 1) :
              /\ ticket' = t
              /\ chosen' = Some(ChoiceFor(candidates, context.energy, t))
              /\ context' = [context EXCEPT
                               !.last_scene = Some(chosen'[1].name),
                               !.last_palette = Some(chosen'[1].palette)]
    /\ pc' = "returned"
    /\ UNCHANGED <<catalog, initial, candidates>>
    /\ UNCHANGED <<mergeVars, mapper, gen>>

\* _weighted_choice_by_energy(candidates, context.energy)
WeightedChoice ==
    /\ pc = "choice"
    /\ IF candidates = <<>>
       THEN /\ chosen' = None
            /\ ticket' = 0
       ELSE \E t \in 0..(Total(candidates, context.energy) - 1) :
              /\ ticket' = t
              /\ chosen' = Some(ChoiceFor(candidates, context.energy, t))
    /\ pc' = "returned"
    /\ UNCHANGED <<context, catalog, initial, candidates>>
    /\ UNCHANGED <<mergeVars, mapper, gen>>

SelNext ==
    \/ EnergyStep
    \/ PaletteStep
    \/ LastSceneStep
    \/ WashStep
    \/ DropStep
    \/ StrobeStep
    \/ RelaxStep
    \/ WeightedChoice

SpecSelect == SelInit /\ [][SelNext]_vars

\* select_scene on contexts that carry all seven fields of SceneContext.
Sections == {None, Some("drop")}
Tempos == {None, Some(120)}

FullContexts ==
    [energy: {1, 3},
     last_palette: {None, Some("warm")},
     last_scene: {None, Some("a")},
     is_drop: BOOLEAN,
     strobe_allowed: BOOLEAN,
     section: Sections,
     tempo: Tempos]

FrameInit ==
    /\ pc = "select"
    /\ context \in FullContexts
    /\ catalog \in SeqsUpTo(ScenePool, MaxCatalog)
    /\ initial = <<>>
    /\ candidates = <<>>
    /\ ticket = 0
    /\ chosen = None
    /\ MergeIdle /\ MapIdle /\ GenIdle

SpecFrame == FrameInit /\ [][SelNext]_vars

-----------------------------------------------------------------------------
(* _weighted_choice_by_energy called on its own.                           *)

\* Candidates that differ in energy only: the weight reads nothing else.
EnergyScenes ==
    { [name |-> "s", energy |-> e, palette |-> "warm", strobe |-> "none", focus |-> "wash"] :
        e \in Energies }

WeightedInit ==
    /\ pc = "choice"
    /\ context \in { [energy |-> e, last_palette |-> None, last_scene |-> None,
                       is_drop |-> FALSE, strobe_allowed |-> TRUE] : e \in Energies }
    /\ candidates \in SeqsUpTo(EnergyScenes, MaxCandidates)
    /\ catalog = candidates
    /\ initial = candidates
    /\ ticket = 0
    /\ chosen = None
    /\ MergeIdle /\ MapIdle /\ GenIdle

WeightedNext == WeightedChoice

SpecWeighted == WeightedInit /\ [][WeightedNext]_vars

-----------------------------------------------------------------------------
(* qlc_io.py: text.                                                        *)
(*                                                                         *)
(* A text is a sequence of strings read as their concatenation.  Texts the *)
(* code takes apart (channel keys, numbers, payloads) are written one      *)
(* character per element; names are written in the pieces the code joins.  *)

DigitChars == <<"0", "1", "2", "3", "4", "5", "6", "7", "8", "9">>
UpperChars == <<"A", "B", "C", "D", "E", "F", "G", "H", "I", "J", "K", "L", "M",
                "N", "O", "P", "Q", "R", "S", "T", "U", "V", "W", "X", "Y", "Z">>
LowerChars == <<"a", "b", "c", "d", "e", "f", "g", "h", "i", "j", "k", "l", "m",
                "n", "o", "p", "q", "r", "s", "t", "u", "v", "w", "x", "y", "z">>

IsDigitChar(c) == \E d \in 1..10 : DigitChars[d] = c
DigitVal(c) == (CHOOSE d \in 1..10 : DigitChars[d] = c) - 1

\* str(n)
RECURSIVE StrNat(_)
StrNat(n) ==
    IF n < 10 THEN <<DigitChars[n + 1]>>
    ELSE StrNat(n \div 10) \o <<DigitChars[(n % 10) + 1]>>
Str(n) == IF n < 0 THEN <<"-">> \o StrNat(-n) ELSE StrNat(n)

\* str.isdigit()
IsDigit(t) == t # <<>> /\ \A i \in 1..Len(t) : IsDigitChar(t[i])

\* int(text)
RECURSIVE IntNat(_)
IntNat(t) ==
    IF t = <<>> THEN 0
    ELSE 10 * IntNat(SubSeq(t, 1, Len(t) - 1)) + DigitVal(t[Len(t)])
Int_(t) == IF t # <<>> /\ t[1] = "-" THEN -IntNat(Tail(t)) ELSE IntNat(t)

\* str.lower()
LowerChar(c) ==
    IF \E i \in 1..26 : UpperChars[i] = c
    THEN LowerChars[CHOOSE i \in 1..26 : UpperChars[i] = c]
    ELSE c
Lower(t) == [i \in 1..Len(t) |-> LowerChar(t[i])]

\* str.startswith(prefix)
StartsWith(t, prefix) ==
    Len(t) >= Len(prefix) /\ SubSeq(t, 1, Len(prefix)) = prefix

\* ",".join(tokens)
RECURSIVE Join(_)
Join(tokens) ==
    IF tokens = <<>> THEN <<>>
    ELSE IF Len(tokens) = 1 THEN tokens[1]
    ELSE tokens[1] \o <<",">> \o Join(Tail(tokens))

\* `piece in name`, for a name written in pieces
Contains(name, piece) == \E i \in 1..Len(name) : name[i] = piece

\* f"ch{i}"
Ch(i) == <<"c", "h">> \o Str(i)

-----------------------------------------------------------------------------
(* rig.py, schema.py: the data handed to the writer.                       *)

ChannelDef(i) == [index |-> i, name |-> Ch(i)]

\* A fixture as load_rig_from_qlc builds it: channels ch0 .. ch<n-1>.
FixtureDef(id, name, channel_count) ==
    [fixture_id |-> id, name |-> name,
     channels |-> [i \in 1..channel_count |-> ChannelDef(i - 1)]]

channel_count(fixture) == Len(fixture.channels)

FixtureState(id, channel_values) ==
    [fixture_id |-> id, channel_values |-> channel_values]

SceneSpec(name, states) ==
    [name |-> name, scene_type |-> "static", states |-> states]

\* A dict of channel values, in insertion order.
Item(key, value) == [key |-> key, value |-> value]

\* Mutant of FixtureIndexGet: an id the rig does not have yields its first
\* fixture.
FixtureIndexFirst(rig, id) ==
    LET hits == {i \in 1..Len(rig) : rig[i].fixture_id = id}
    IN  IF hits = {} THEN Some(rig[1])
        ELSE Some(rig[CHOOSE i \in hits : \A j \in hits : j <= i])

\* fixture_index = {fx.fixture_id: fx for fx in rig.fixtures}; .get(id)
FixtureIndexGet(rig, id) ==
    LET hits == {i \in 1..Len(rig) : rig[i].fixture_id = id}
    IN  IF hits = {} THEN None
        ELSE Some(rig[CHOOSE i \in hits : \A j \in hits : j <= i])

-----------------------------------------------------------------------------
(* qlc_io.py: channel payloads.                                            *)

ChannelPrefixes == << <<"c", "h">>,
                      <<"c", "h", "a", "n", "n", "e", "l">>,
                      <<"c", "h", "a", "n">> >>

PrefixHits(lowered) ==
    {k \in 1..Len(ChannelPrefixes) :
        /\ StartsWith(lowered, ChannelPrefixes[k])
        /\ IsDigit(SubSeq(lowered, Len(ChannelPrefixes[k]) + 1, Len(lowered)))}

NameHits(fixture, lowered) ==
    {k \in 1..Len(fixture.channels) : Lower(fixture.channels[k].name) = lowered}

Least(S) == CHOOSE i \in S : \A j \in S : i <= j

\* Mutant of _resolve_channel_index: the fixture's channel names are looked
\* up before the prefix rule.
ResolveNameFirst(fixture, channel_name, fallback) ==
    LET lowered == Lower(channel_name)
    IN  IF IsDigit(lowered) THEN Int_(lowered)
        ELSE IF fixture # None /\ NameHits(fixture[1], lowered) # {}
        THEN fixture[1].channels[Least(NameHits(fixture[1], lowered))].index
        ELSE IF PrefixHits(lowered) # {}
        THEN Int_(SubSeq(lowered,
                         Len(ChannelPrefixes[Least(PrefixHits(lowered))]) + 1,
                         Len(lowered)))
        ELSE fallback

_resolve_channel_index(fixture, channel_name, fallback) ==
    LET lowered == Lower(channel_name)
    IN  IF IsDigit(lowered) THEN Int_(lowered)
        ELSE IF PrefixHits(lowered) # {}
        THEN Int_(SubSeq(lowered,
                         Len(ChannelPrefixes[Least(PrefixHits(lowered))]) + 1,
                         Len(lowered)))
        ELSE IF fixture # None /\ NameHits(fixture[1], lowered) # {}
        THEN fixture[1].channels[Least(NameHits(fixture[1], lowered))].index
        ELSE fallback

\* max(0, min(255, int(raw_value)))
Clamp255(v) == IF v < 0 THEN 0 ELSE IF v > 255 THEN 255 ELSE v

\* channel_items, before the sort
ChannelItems(fixture, channel_values) ==
    [k \in 1..Len(channel_values) |->
        [idx |-> _resolve_channel_index(fixture, channel_values[k].key, k - 1),
         val |-> Clamp255(channel_values[k].value)]]

\* channel_items.sort(key=lambda t: t[0]): a stable sort on the index
RECURSIVE InsertSorted(_, _)
InsertSorted(sorted, item) ==
    IF sorted = <<>> THEN <<item>>
    ELSE IF sorted[Len(sorted)].idx <= item.idx THEN Append(sorted, item)
    ELSE Append(InsertSorted(SubSeq(sorted, 1, Len(sorted) - 1), item),
                sorted[Len(sorted)])

\* Mutant of SortByIndex: the items stay in the order of the channel map.
KeepOrder(items) == items

RECURSIVE SortByIndex(_)
SortByIndex(items) ==
    IF items = <<>> THEN <<>>
    ELSE InsertSorted(SortByIndex(SubSeq(items, 1, Len(items) - 1)),
                      items[Len(items)])

RECURSIVE Flatten(_)
Flatten(items) ==
    IF items = <<>> THEN <<>>
    ELSE <<Str(items[1].idx), Str(items[1].val)>> \o Flatten(Tail(items))

Payload(items) == Join(Flatten(SortByIndex(items)))

-----------------------------------------------------------------------------
(* qlc_io.py: the built-in flash and sweep scenes.                         *)

\* {"ch0": v, ..., "ch<n-1>": v}
Uniform(n, v) == [k \in 1..n |-> Item(Ch(k - 1), v)]

FlashOnValues(fixture) ==
    IF channel_count(fixture) >= 5 THEN Uniform(5, 255)
    ELSE IF channel_count(fixture) = 4 THEN Uniform(4, 255)
    ELSE IF channel_count(fixture) >= 3 THEN Uniform(3, 255)
    ELSE IF channel_count(fixture) >= 1 THEN Uniform(1, 255)
    ELSE <<>>

\* _build_flash_scenes(rig): <<on_scene, off_scene>>
_build_flash_scenes(rig) ==
    << SceneSpec(<<"Flash ON">>,
                 [i \in 1..Len(rig) |->
                     FixtureState(rig[i].fixture_id, FlashOnValues(rig[i]))]),
       SceneSpec(<<"Flash OFF">>,
                 [i \in 1..Len(rig) |->
                     FixtureState(rig[i].fixture_id, <<Item(Ch(0), 0)>>)]) >>

_blue_values_for_fixture(fixture, intensity) ==
    IF channel_count(fixture) >= 5
    THEN <<Item(Ch(0), intensity), Item(Ch(1), 0), Item(Ch(2), 0),
           Item(Ch(3), 255), Item(Ch(4), 0)>>
    ELSE IF channel_count(fixture) = 4
    THEN <<Item(Ch(0), intensity), Item(Ch(1), 0), Item(Ch(2), 0), Item(Ch(3), 255)>>
    ELSE IF channel_count(fixture) >= 3
    THEN <<Item(Ch(0), 0), Item(Ch(1), 0), Item(Ch(2), 255)>>
    ELSE IF channel_count(fixture) >= 1
    THEN <<Item(Ch(0), intensity)>>
    ELSE <<>>

_off_values_for_fixture(fixture) ==
    IF channel_count(fixture) >= 5 THEN Uniform(5, 0)
    ELSE IF channel_count(fixture) = 4 THEN Uniform(4, 0)
    ELSE IF channel_count(fixture) >= 3 THEN Uniform(3, 0)
    ELSE IF channel_count(fixture) >= 1 THEN Uniform(1, 0)
    ELSE <<>>

BarIntensity == 128
TargetIntensity == 180

IsBar(fixture) == Contains(fixture.name, "Barras LED")
IsWash(fixture) == Contains(fixture.name, "VDPLPS36B2") \/ IsBar(fixture)

Positions(rig) == [i \in 1..Len(rig) |-> i]

\* bar_fixture: the position of the first fixture named "Barras LED", if any
BarFixture(rig) ==
    IF \E i \in 1..Len(rig) : IsBar(rig[i])
    THEN Some(Least({i \in 1..Len(rig) : IsBar(rig[i])}))
    ELSE None

WashFixtures(rig) == SelectSeq(Positions(rig), LAMBDA i : IsWash(rig[i]))

\* Mutant of SweepTargets: the bar is swept like any wash fixture.
SweepTargetsWithBar(rig) == WashFixtures(rig)

\* [fx for fx in wash_fixtures if fx is not bar_fixture]: an identity test,
\* so on positions
SweepTargets(rig) ==
    SelectSeq(WashFixtures(rig), LAMBDA i : BarFixture(rig) # Some(i))

\* The states of the sweep scene for `target`; `fx == target` compares the
\* fixtures' fields.
SweepStates(rig, target) ==
    (IF BarFixture(rig) # None
     THEN <<FixtureState(rig[BarFixture(rig)[1]].fixture_id,
                         _blue_values_for_fixture(rig[BarFixture(rig)[1]], BarIntensity))>>
     ELSE <<>>)
    \o [k \in 1..Len(SweepTargets(rig)) |->
          LET fx == rig[SweepTargets(rig)[k]]
          IN  FixtureState(fx.fixture_id,
                           IF fx = rig[target]
                           THEN _blue_values_for_fixture(fx, TargetIntensity)
                           ELSE _off_values_for_fixture(fx))]

_build_primary_sweep_scenes(rig) ==
    LET over == IF SweepTargets(rig) # <<>> THEN SweepTargets(rig)
                ELSE WashFixtures(rig)
    IN  [k \in 1..Len(over) |->
            SceneSpec(<<"Sweep ">> \o rig[over[k]].name, SweepStates(rig, over[k]))]

-----------------------------------------------------------------------------
(* The rigs and SceneSets the writer is called with.                       *)

\* A fixture whose channels carry names of their own: "dimmer" at index 0,
\* "red" at index 3 and "ch2" at index 1.
NamedFixture ==
    [fixture_id |-> "0", name |-> <<"Custom">>,
     channels |-> << [index |-> 0, name |-> <<"d", "i", "m", "m", "e", "r">>],
                     [index |-> 3, name |-> <<"r", "e", "d">>],
                     [index |-> 1, name |-> <<"c", "h", "2">>] >>]

\* Three rigs: one without wash fixtures, one with a bar and two wash
\* fixtures, one with named channels.
BasicRigs ==
    << << FixtureDef("0", <<"Spot">>, 1) >>,
       << FixtureDef("0", <<"VDPLPS36B2", " L">>, 5),
          FixtureDef("1", <<"Barras LED">>, 3),
          FixtureDef("2", <<"VDPLPS36B2", " R">>, 4) >>,
       << NamedFixture >> >>

\* The fixtures of the rigs the sweep is built for: a name and a channel
\* count.
SweepKinds ==
    << [name |-> <<"Spot">>, channel_count |-> 1],
       [name |-> <<"VDPLPS36B2", " L">>, channel_count |-> 5],
       [name |-> <<"VDPLPS36B2", " R">>, channel_count |-> 3],
       [name |-> <<"Barras LED">>, channel_count |-> 3],
       [name |-> <<"Barras LED", " 2">>, channel_count |-> 4],
       [name |-> <<"VDPLPS36B2", " X">>, channel_count |-> 0] >>

RECURSIVE Pow(_, _)
Pow(b, e) == IF e = 0 THEN 1 ELSE b * Pow(b, e - 1)

\* How many sequences of fewer than len fixtures (and at least one) there are.
RECURSIVE RigsShorter(_)
RigsShorter(len) ==
    IF len <= 1 THEN 0
    ELSE RigsShorter(len - 1) + Pow(Len(SweepKinds), len - 1)

\* The i-th rig of 1..MaxSweepFixtures fixtures of SweepKinds, the fixture at
\* position p having the id p - 1.
SweepRigAt(i) ==
    LET len == CHOOSE l \in 1..MaxSweepFixtures :
                   RigsShorter(l) < i /\ i <= RigsShorter(l + 1)
        code == i - RigsShorter(len) - 1
    IN  [p \in 1..len |->
            LET kind == SweepKinds[((code \div Pow(Len(SweepKinds), p - 1))
                                       % Len(SweepKinds)) + 1]
            IN  FixtureDef(DigitChars[p], kind.name, kind.channel_count)]

\* The Rig objects the writer is called with, by reference.
RigPool ==
    BasicRigs \o [i \in 1..RigsShorter(MaxSweepFixtures + 1) |-> SweepRigAt(i)]

\* The rigs of the merge runs, and those of the runs on channel maps.
PlainRigs == {1, 2}
PayloadRigs == {2, 3}
SweepRigs == (Len(BasicRigs) + 1)..Len(RigPool)

\* The k-th SceneSpec of the SceneSet handed in.
UserScene(k) ==
    SceneSpec(<<"Look ">> \o Str(k),
              <<FixtureState("0", <<Item(Ch(0), 120 + k)>>)>>)

\* Channel keys and raw values a FixtureState may carry.
PayloadKeys ==
    << <<"0">>,
       <<"c", "h", "0">>,
       <<"C", "h", "2">>,
       <<"c", "h", "a", "n", "1">>,
       <<"c", "h", "a", "n", "n", "e", "l", "3">>,
       <<"R", "e", "d">>,
       <<"f", "o", "g">> >>
PayloadValues == <<-5, 128, 300>>
PayloadFixtureIds == <<"0", "9">>

\* The j-th (key, value) item, j in 1..NumItems.
NumItems == Len(PayloadKeys) * Len(PayloadValues)
PayloadItem(j) ==
    Item(PayloadKeys[((j - 1) \div Len(PayloadValues)) + 1],
         PayloadValues[((j - 1) % Len(PayloadValues)) + 1])

\* A channel map of at most two items with different keys: i and j name its
\* items, 0 for none.
PayloadMap(i, j) ==
    (IF i = 0 THEN <<>> ELSE <<PayloadItem(i)>>)
    \o (IF j = 0 THEN <<>> ELSE <<PayloadItem(j)>>)

IsPayloadMap(i, j) ==
    /\ i = 0 => j = 0
    /\ (i # 0 /\ j # 0) => PayloadItem(i).key # PayloadItem(j).key

\* A SceneSet of one scene: a state of fixture f with the map (i, j), then a
\* state of fixture "1".
PayloadScenes(f, i, j) ==
    << SceneSpec(<<"Test Scene">>,
                 << FixtureState(PayloadFixtureIds[f], PayloadMap(i, j)),
                    FixtureState("1", <<Item(Ch(1), 255)>>) >>) >>

\* The reference of that SceneSet.
PayloadRef(f, i, j) ==
    MaxScenes + 1 + ((f - 1) * (NumItems + 1) + i) * (NumItems + 1) + j

PayloadRefs ==
    { PayloadRef(t[1], t[2], t[3]) :
        t \in {u \in (DOMAIN PayloadFixtureIds) \X (0..NumItems) \X (0..NumItems) :
                  IsPayloadMap(u[2], u[3])} }

PlainRefs == {0, MaxScenes}

\* The SceneSet objects handed in, by reference: the empty one, the one of
\* MaxScenes scenes, and those of PayloadScenes.
SceneSets ==
    [n \in PlainRefs \cup PayloadRefs |->
        IF n \in PlainRefs THEN [k \in 1..n |-> UserScene(k)]
        ELSE LET code == n - MaxScenes - 1
             IN  PayloadScenes((code \div ((NumItems + 1) * (NumItems + 1))) + 1,
                               (code \div (NumItems + 1)) % (NumItems + 1),
                               code % (NumItems + 1))]

\* What _build_flash_scenes and _build_primary_sweep_scenes return for each
\* rig of RigPool, computed once.
FlashScenes == [r \in DOMAIN RigPool |-> _build_flash_scenes(RigPool[r])]
SweepScenes == [r \in DOMAIN RigPool |-> _build_primary_sweep_scenes(RigPool[r])]

-----------------------------------------------------------------------------
(* qlc_io.py: elements.  An element has a tag, attributes (a function from *)
(* attribute names to texts), a text, a tail and children.                 *)

Element(tag, attrib, text, kids) ==
    [tag |-> tag, attrib |-> attrib, text |-> text, tail |-> <<>>, kids |-> kids]

\* The FixtureVal children _append_fixture_channels adds for one state.
_append_fixture_channels(rig, fixture_state) ==
    LET fixture == FixtureIndexGet(rig, fixture_state.fixture_id)
        channel_items == ChannelItems(fixture, fixture_state.channel_values)
    IN  IF channel_items = <<>> THEN <<>>
        ELSE <<Element("FixtureVal", [ID |-> <<fixture_state.fixture_id>>],
                       Payload(channel_items), <<>>)>>

RECURSIVE FixtureVals(_, _)
FixtureVals(rig, states) ==
    IF states = <<>> THEN <<>>
    ELSE _append_fixture_channels(rig, states[1]) \o FixtureVals(rig, Tail(states))

\* Every scene the writer meets with rig r and SceneSet s: those handed in,
\* then the flash and the sweep scenes.
ScenesFor(r, s) == SceneSets[s] \o FlashScenes[r] \o SweepScenes[r]

\* The rigs a SceneSet is written with.
RigsFor(s) == IF s \in PayloadRefs THEN PayloadRigs ELSE DOMAIN RigPool

\* The FixtureVal children of each of them, computed once: those of the
\* scenes handed in, and those of the flash and sweep scenes.
UserBodies ==
    [s \in DOMAIN SceneSets |->
        [r \in RigsFor(s) |->
            [k \in 1..Len(SceneSets[s]) |->
                FixtureVals(RigPool[r], SceneSets[s][k].states)]]]
BuiltInBodies ==
    [r \in DOMAIN RigPool |->
        [k \in 1..Len(FlashScenes[r] \o SweepScenes[r]) |->
            FixtureVals(RigPool[r], (FlashScenes[r] \o SweepScenes[r])[k].states)]]
SceneBodies(r, s, k) ==
    IF k <= Len(SceneSets[s]) THEN UserBodies[s][r][k]
    ELSE BuiltInBodies[r][k - Len(SceneSets[s])]

\* The element _append_scene builds for the k-th scene of ScenesFor(r, s).
SceneElement(r, s, k, scene_id) ==
    Element("Function",
            [ID |-> Str(scene_id), Type |-> <<"Scene">>,
             Name |-> ScenesFor(r, s)[k].name],
            <<>>,
            <<Element("Speed",
                      [FadeIn |-> <<"0">>, FadeOut |-> <<"0">>, Duration |-> <<"0">>],
                      <<>>, <<>>)>>
            \o SceneBodies(r, s, k))

\* Where the flash and the sweep scenes sit in ScenesFor(r, s).
FlashAt(s, k) == Len(SceneSets[s]) + k
SweepAt(s, k) == Len(SceneSets[s]) + 2 + k

\* Mutant of ShowFunction: the start time is the position, not a time.
ShowFunctionAtIndex(scene_id, idx, step_ms, is_chaser) ==
    Element("ShowFunction",
            [ID |-> Str(scene_id),
             StartTime |-> Str(idx),
             Duration |-> IF is_chaser THEN <<"0">> ELSE Str(step_ms),
             Color |-> <<"#55aa00">>],
            <<>>, <<>>)

\* One member of a show: _append_show's loop body.
ShowFunction(scene_id, idx, step_ms, is_chaser) ==
    Element("ShowFunction",
            [ID |-> Str(scene_id),
             StartTime |-> Str(idx * step_ms),
             Duration |-> IF is_chaser THEN <<"0">> ELSE Str(step_ms),
             Color |-> <<"#55aa00">>],
            <<>>, <<>>)

\* Mutant of ShowElement: the Track names the show itself as its scene.
ShowElementOwnTrack(show_id, scene_ids, show_name, step_ms, is_chaser) ==
    Element("Function",
            [ID |-> Str(show_id), Type |-> <<"Show">>, Name |-> show_name],
            <<>>,
            <<Element("TimeDivision", [Type |-> <<"Time">>, BPM |-> <<"120">>],
                      <<>>, <<>>),
              Element("Track",
                      [ID |-> <<"0">>, Name |-> show_name,
                       SceneID |-> Str(show_id), isMute |-> <<"0">>],
                      <<>>,
                      [k \in 1..Len(scene_ids) |->
                          ShowFunction(scene_ids[k], k - 1, step_ms, is_chaser)])>>)

\* The element _append_show builds.
ShowElement(show_id, scene_ids, show_name, step_ms, is_chaser) ==
    Element("Function",
            [ID |-> Str(show_id), Type |-> <<"Show">>, Name |-> show_name],
            <<>>,
            <<Element("TimeDivision", [Type |-> <<"Time">>, BPM |-> <<"120">>],
                      <<>>, <<>>),
              Element("Track",
                      [ID |-> <<"0">>, Name |-> show_name,
                       SceneID |-> Str(scene_ids[1]), isMute |-> <<"0">>],
                      <<>>,
                      [k \in 1..Len(scene_ids) |->
                          ShowFunction(scene_ids[k], k - 1, step_ms, is_chaser)])>>)

\* Mutant of Step: the steps are numbered from 1.
StepFromOne(scene_id, idx, step_ms) ==
    Element("Step",
            [Number |-> Str(idx + 1), FadeIn |-> <<"0">>,
             Hold |-> Str(step_ms), FadeOut |-> <<"0">>],
            Str(scene_id), <<>>)

\* One step of a chaser: _append_chaser's loop body.
Step(scene_id, idx, step_ms) ==
    Element("Step",
            [Number |-> Str(idx), FadeIn |-> <<"0">>,
             Hold |-> Str(step_ms), FadeOut |-> <<"0">>],
            Str(scene_id), <<>>)

\* The element _append_chaser builds.
ChaserElement(chaser_id, step_scene_ids, chaser_name, step_ms) ==
    Element("Function",
            [ID |-> Str(chaser_id), Type |-> <<"Chaser">>, Name |-> chaser_name],
            <<>>,
            <<Element("Speed",
                      [FadeIn |-> <<"0">>, FadeOut |-> <<"0">>, Duration |-> Str(step_ms)],
                      <<>>, <<>>),
              Element("Direction", <<>>, <<"Forward">>, <<>>),
              Element("RunOrder", <<>>, <<"Loop">>, <<>>),
              Element("SpeedModes",
                      [FadeIn |-> <<"Default">>, FadeOut |-> <<"Default">>,
                       Duration |-> <<"Common">>],
                      <<>>, <<>>)>>
            \o [k \in 1..Len(step_scene_ids) |->
                   Step(step_scene_ids[k], k - 1, step_ms)])

-----------------------------------------------------------------------------
(* qlc_io.py: _indent.                                                     *)

\* "\n" + "  " * level
IndentStr(level) == <<"\n">> \o [k \in 1..level |-> "  "]

\* not t or not t.strip()
Blank(t) == \A i \in 1..Len(t) : t[i] \in {"\n", "  ", " ", ""}

RECURSIVE _indent(_, _)
_indent(elem, level) ==
    IF Len(elem.kids) > 0
    THEN [elem EXCEPT
            !.text = IF Blank(@) THEN IndentStr(level + 1) ELSE @,
            !.kids = [k \in 1..Len(elem.kids) |->
                LET child == _indent(elem.kids[k], level + 1)
                IN  [child EXCEPT
                       !.tail = IF ~Blank(@) THEN @
                                ELSE IF k = Len(elem.kids) THEN IndentStr(level)
                                ELSE IndentStr(level + 1)]]]
    ELSE [elem EXCEPT
            !.tail = IF level # 0 /\ Blank(@) THEN IndentStr(level) ELSE @]

-----------------------------------------------------------------------------
(* The workspace documents and the file system.                            *)

OldFunction(id) ==
    Element("Function", [ID |-> Str(id), Type |-> <<"Scene">>, Name |-> <<"old">>],
            <<>>, <<>>)
OldFunctionNoID ==
    Element("Function", [Type |-> <<"Script">>, Name |-> <<"old">>], <<>>, <<>>)
FixtureElement == Element("Fixture", <<>>, <<>>, <<>>)
MonitorElement == Element("Monitor", [DisplayMode |-> <<"0">>], <<>>, <<>>)

\* What an Engine section may hold before the call.
ChildPool ==
    {FixtureElement, OldFunction(0), OldFunction(2), OldFunction(5),
     OldFunctionNoID, MonitorElement}

Workspace(kids) == Element("Workspace", <<>>, <<>>, kids)
Creator == Element("Creator", <<>>, <<>>, <<>>)
VirtualConsole == Element("VirtualConsole", <<>>, <<>>, <<>>)
Engine(children) == Element("Engine", <<>>, <<>>, children)

\* The workspaces with at most n children in their Engine section, and one
\* that has no Engine section.
DocumentsUpTo(n) ==
    {Workspace(<<Creator, VirtualConsole>>)}
    \cup {Workspace(<<Creator, Engine(c), VirtualConsole>>) :
            c \in SeqsUpTo(ChildPool, n)}

Documents == DocumentsUpTo(MaxChildren)

\* A file: its DOCTYPE line, if it has one, and its element tree.
FileContent(doctype, body) == [doctype |-> doctype, body |-> body]

\* open(target, "w") leaves an empty file
EmptyFile == FileContent(None, None)

SourcePath == <<"show", ".qxw">>
OtherPath == <<"out", ".qxw">>

\* Path(path).with_name(f"{Path(path).stem}_generated.qxw")
Stem(path) == SubSeq(path, 1, Len(path) - 1)
DefaultTarget(path) == Stem(path) \o <<"_generated", ".qxw">>

Paths == {SourcePath, OtherPath, DefaultTarget(SourcePath)}

\* ET.parse(path).getroot() and _extract_doctype(path)
Parse(path) == files[path][1].body[1]
_extract_doctype(path) == files[path][1].doctype

\* root.find("qlc:Engine", NS): the position of the first Engine child
FindEngine(r) ==
    IF \E k \in 1..Len(r.kids) : r.kids[k].tag = "Engine"
    THEN Some(Least({k \in 1..Len(r.kids) : r.kids[k].tag = "Engine"}))
    ELSE None

EngineChildren(r) == r.kids[FindEngine(r)[1]].kids

\* existing_ids
ExistingIds(children) ==
    { Int_(children[k].attrib.ID) :
        k \in {j \in 1..Len(children) :
                  children[j].tag = "Function" /\ "ID" \in DOMAIN children[j].attrib} }

Maximum(S) == CHOOSE m \in S : \A n \in S : n <= m

\* Mutant of NextId: the number of ids in use, not the largest of them.
NextIdByCount(existing_ids) == Cardinality(existing_ids)

\* next_id = max(existing_ids) + 1 if existing_ids else 0
NextId(existing_ids) ==
    IF existing_ids # {} THEN Maximum(existing_ids) + 1 ELSE 0

\* monitor_idx: the 0-based position of the first Monitor child, if any
MonitorIdx(children) ==
    IF \E k \in 1..Len(children) : children[k].tag = "Monitor"
    THEN Some(Least({k \in 1..Len(children) : children[k].tag = "Monitor"}) - 1)
    ELSE None

\* Mutant of Insert: the element lands on the child at insert_at.
InsertOverwrites(children, insert_at, func_el) ==
    IF insert_at = None THEN Append(children, func_el)
    ELSE [children EXCEPT ![insert_at[1] + 1] = func_el]

\* engine.append(func_el) or engine.insert(insert_at, func_el)
Insert(children, insert_at, func_el) ==
    IF insert_at = None THEN Append(children, func_el)
    ELSE SubSeq(children, 1, insert_at[1]) \o <<func_el>>
         \o SubSeq(children, insert_at[1] + 1, Len(children))

\* Mutant of Advance: the insertion point stays where it was.
AdvanceIdOnly(l) == [l EXCEPT !.next_id = @ + 1]

\* next_id += 1; if monitor_idx is not None: monitor_idx += 1
Advance(l) ==
    [l EXCEPT !.next_id = @ + 1,
              !.monitor_idx = IF @ = None THEN None ELSE Some(@[1] + 1)]

\* The tree with func_el put into its Engine section.
WithFunction(r, insert_at, func_el) ==
    [r EXCEPT !.kids[FindEngine(r)[1]].kids = Insert(@, insert_at, func_el)]

-----------------------------------------------------------------------------
(* write_scenes_to_qlc: its arguments.                                     *)

DefaultShowStepMs == 5000
DefaultFlashStepMs == 100
DefaultFlashTotalMs == 300000
DefaultSweepStepMs == 500

OutputPaths == {None, Some(OtherPath), Some(SourcePath)}

Arguments(output_paths, rigs, scene_sets) ==
    [path: {SourcePath},
     rig: rigs,
     scenes: scene_sets,
     output_path: output_paths,
     create_show: BOOLEAN,
     show_name: {<<"Generated Show">>},
     show_step_ms: {DefaultShowStepMs},
     create_flash_chaser: BOOLEAN,
     flash_chaser_name: {<<"Flash White">>},
     flash_step_ms: {DefaultFlashStepMs},
     flash_total_ms: {DefaultFlashTotalMs},
     create_primary_sweep: BOOLEAN,
     primary_sweep_name: {<<"Blue Sweep">>},
     primary_sweep_step_ms: {DefaultSweepStepMs}]

Locals ==
    [doctype |-> None, next_id |-> 0, monitor_idx |-> None,
     new_scene_ids |-> <<>>, flash_on_id |-> None, flash_off_id |-> None,
     chaser_id |-> None, sweep_scenes |-> 0, sweep_scene_ids |-> <<>>,
     target |-> None]

-----------------------------------------------------------------------------
(* write_scenes_to_qlc, one action per element it builds.                  *)

Start(arguments, documents) ==
    /\ pc = "start"
    /\ args \in arguments
    /\ \E doc \in documents :
         files = [p \in Paths |->
                    IF p = SourcePath
                    THEN Some(FileContent(Some(<<"<!DOCTYPE Workspace>">>), Some(doc)))
                    ELSE IF p = OtherPath
                    THEN Some(FileContent(None, Some(Workspace(<<Creator>>))))
                    ELSE None]
    /\ before = files
    /\ root = None
    /\ loc = Locals
    /\ created = <<>>
    /\ SelIdle /\ MapIdle /\ GenIdle

\* Called without an output_path, on every document.
MergeInit == Start(Arguments({None}, PlainRigs, PlainRefs), Documents)

\* Called with and without an output_path, on the smaller documents.
TargetInit ==
    Start(Arguments(OutputPaths, PlainRigs, PlainRefs),
          DocumentsUpTo(MaxTargetChildren))

\* Mutant of OnMissingEngine: the missing section is not reported and the
\* function goes on to write.
OnMissingEngineGoOn == "target"

\* raise ValueError("QLC+ workspace missing <Engine> section")
OnMissingEngine == "raised"

\* doctype, tree, engine, existing_ids, next_id, monitor_idx
ParseSource ==
    /\ pc = "start"
    /\ LET r == Parse(args.path)
       IN  /\ root' = Some(r)
           /\ IF FindEngine(r) = None
              THEN /\ pc' = OnMissingEngine
                   /\ loc' = [loc EXCEPT !.doctype = _extract_doctype(args.path)]
              ELSE /\ pc' = "scenes"
                   /\ loc' = [loc EXCEPT
                        !.doctype = _extract_doctype(args.path),
                        !.next_id = NextId(ExistingIds(EngineChildren(r))),
                        !.monitor_idx = MonitorIdx(EngineChildren(r))]
    /\ UNCHANGED <<files, args, created, before>>
    /\ UNCHANGED <<selVars, mapper, gen>>

\* for scene in scenes.scenes: _append_scene(...)
AppendScene ==
    /\ pc = "scenes"
    /\ Len(loc.new_scene_ids) < Len(SceneSets[args.scenes])
    /\ LET func_el == SceneElement(args.rig, args.scenes, Len(loc.new_scene_ids) + 1,
                                   loc.next_id)
       IN  /\ root' = Some(WithFunction(root[1], loc.monitor_idx, func_el))
           /\ created' = Append(created, func_el.attrib)
           /\ loc' = [Advance(loc) EXCEPT
                        !.new_scene_ids = Append(@, loc.next_id)]
    /\ UNCHANGED <<pc, files, args, before>>
    /\ UNCHANGED <<selVars, mapper, gen>>

\* if create_show and new_scene_ids: _append_show(...)
WrapShow ==
    /\ pc = "scenes"
    /\ Len(loc.new_scene_ids) = Len(SceneSets[args.scenes])
    /\ IF args.create_show /\ loc.new_scene_ids # <<>>
       THEN LET func_el == ShowElement(loc.next_id, loc.new_scene_ids,
                                       args.show_name, args.show_step_ms, FALSE)
            IN  /\ root' = Some(WithFunction(root[1], loc.monitor_idx, func_el))
                /\ created' = Append(created, func_el.attrib)
                /\ loc' = Advance(loc)
       ELSE UNCHANGED <<root, created, loc>>
    /\ pc' = "flash"
    /\ UNCHANGED <<files, args, before>>
    /\ UNCHANGED <<selVars, mapper, gen>>

\* if create_flash_chaser: the flash ON scene
FlashOn ==
    /\ pc = "flash"
    /\ IF args.create_flash_chaser
       THEN LET func_el == SceneElement(args.rig, args.scenes, FlashAt(args.scenes, 1),
                                        loc.next_id)
            IN  /\ root' = Some(WithFunction(root[1], loc.monitor_idx, func_el))
                /\ created' = Append(created, func_el.attrib)
                /\ loc' = [Advance(loc) EXCEPT
                             !.flash_on_id = Some(loc.next_id),
                             !.flash_off_id = Some(loc.next_id + 1)]
                /\ pc' = "flash_off"
       ELSE /\ UNCHANGED <<root, created, loc>>
            /\ pc' = "sweep"
    /\ UNCHANGED <<files, args, before>>
    /\ UNCHANGED <<selVars, mapper, gen>>

\* the flash OFF scene
FlashOff ==
    /\ pc = "flash_off"
    /\ LET func_el == SceneElement(args.rig, args.scenes, FlashAt(args.scenes, 2),
                                   loc.flash_off_id[1])
       IN  /\ root' = Some(WithFunction(root[1], loc.monitor_idx, func_el))
           /\ created' = Append(created, func_el.attrib)
           /\ loc' = Advance(loc)
    /\ pc' = "flash_chaser"
    /\ UNCHANGED <<files, args, before>>
    /\ UNCHANGED <<selVars, mapper, gen>>

\* the flash chaser
FlashChaser ==
    /\ pc = "flash_chaser"
    /\ LET func_el == ChaserElement(loc.next_id,
                                    <<loc.flash_on_id[1], loc.flash_off_id[1]>>,
                                    args.flash_chaser_name, args.flash_step_ms)
       IN  /\ root' = Some(WithFunction(root[1], loc.monitor_idx, func_el))
           /\ created' = Append(created, func_el.attrib)
           /\ loc' = [Advance(loc) EXCEPT !.chaser_id = Some(loc.next_id)]
    /\ pc' = "flash_show"
    /\ UNCHANGED <<files, args, before>>
    /\ UNCHANGED <<selVars, mapper, gen>>

\* if create_show: the show that runs the flash chaser
FlashShow ==
    /\ pc = "flash_show"
    /\ IF args.create_show
       THEN LET func_el == ShowElement(loc.next_id, <<loc.chaser_id[1]>>,
                                       args.flash_chaser_name \o <<" Show">>,
                                       args.flash_total_ms, TRUE)
            IN  /\ root' = Some(WithFunction(root[1], loc.monitor_idx, func_el))
                /\ created' = Append(created, func_el.attrib)
                /\ loc' = Advance(loc)
       ELSE UNCHANGED <<root, created, loc>>
    /\ pc' = "sweep"
    /\ UNCHANGED <<files, args, before>>
    /\ UNCHANGED <<selVars, mapper, gen>>

\* if create_primary_sweep: sweep_scenes = _build_primary_sweep_scenes(rig)
SweepBuild ==
    /\ pc = "sweep"
    /\ IF args.create_primary_sweep
       THEN /\ loc' = [loc EXCEPT
                         !.sweep_scenes = Len(SweepScenes[args.rig])]
            /\ pc' = "sweep_scenes"
       ELSE /\ UNCHANGED loc
            /\ pc' = "target"
    /\ UNCHANGED <<files, args, root, created, before>>
    /\ UNCHANGED <<selVars, mapper, gen>>

\* for scene in sweep_scenes: _append_scene(...)
SweepScene ==
    /\ pc = "sweep_scenes"
    /\ Len(loc.sweep_scene_ids) < loc.sweep_scenes
    /\ LET func_el == SceneElement(args.rig, args.scenes,
                                   SweepAt(args.scenes, Len(loc.sweep_scene_ids) + 1),
                                   loc.next_id)
       IN  /\ root' = Some(WithFunction(root[1], loc.monitor_idx, func_el))
           /\ created' = Append(created, func_el.attrib)
           /\ loc' = [Advance(loc) EXCEPT
                        !.sweep_scene_ids = Append(@, loc.next_id)]
    /\ UNCHANGED <<pc, files, args, before>>
    /\ UNCHANGED <<selVars, mapper, gen>>

\* the sweep chaser
SweepChaser ==
    /\ pc = "sweep_scenes"
    /\ Len(loc.sweep_scene_ids) = loc.sweep_scenes
    /\ LET func_el == ChaserElement(loc.next_id, loc.sweep_scene_ids,
                                    args.primary_sweep_name,
                                    args.primary_sweep_step_ms)
       IN  /\ root' = Some(WithFunction(root[1], loc.monitor_idx, func_el))
           /\ created' = Append(created, func_el.attrib)
           /\ loc' = [Advance(loc) EXCEPT !.chaser_id = Some(loc.next_id)]
    /\ pc' = "sweep_show"
    /\ UNCHANGED <<files, args, before>>
    /\ UNCHANGED <<selVars, mapper, gen>>

\* if create_show: the show that runs the sweep chaser
SweepShow ==
    /\ pc = "sweep_show"
    /\ IF args.create_show
       THEN LET func_el ==
                  ShowElement(loc.next_id, <<loc.chaser_id[1]>>,
                              args.primary_sweep_name \o <<" Show">>,
                              args.primary_sweep_step_ms * Len(loc.sweep_scene_ids),
                              TRUE)
            IN  /\ root' = Some(WithFunction(root[1], loc.monitor_idx, func_el))
                /\ created' = Append(created, func_el.attrib)
                /\ loc' = Advance(loc)
       ELSE UNCHANGED <<root, created, loc>>
    /\ pc' = "target"
    /\ UNCHANGED <<files, args, before>>
    /\ UNCHANGED <<selVars, mapper, gen>>

\* target = Path(output_path) if output_path else <stem>_generated.qxw
Target(a) ==
    IF a.output_path # None /\ a.output_path[1] # <<>>
    THEN a.output_path[1]
    ELSE DefaultTarget(a.path)

\* _indent(root); xml_body = ET.tostring(root); open(target, "w")
OpenTarget ==
    /\ pc = "target"
    /\ root' = Some(_indent(root[1], 0))
    /\ loc' = [loc EXCEPT !.target = Some(Target(args))]
    /\ files' = [files EXCEPT ![Target(args)] = Some(EmptyFile)]
    /\ pc' = "write"
    /\ UNCHANGED <<args, created, before>>
    /\ UNCHANGED <<selVars, mapper, gen>>

\* fh.write(declaration); if doctype: fh.write(doctype); fh.write(xml_body)
WriteTarget ==
    /\ pc = "write"
    /\ files' = [files EXCEPT
                   ![loc.target[1]] =
                       Some(FileContent(IF loc.doctype # None /\ loc.doctype[1] # <<>>
                                        THEN loc.doctype ELSE None,
                                        root))]
    /\ pc' = "done"
    /\ UNCHANGED <<args, root, loc, created, before>>
    /\ UNCHANGED <<selVars, mapper, gen>>

MergeNext ==
    \/ ParseSource
    \/ AppendScene
    \/ WrapShow
    \/ FlashOn
    \/ FlashOff
    \/ FlashChaser
    \/ FlashShow
    \/ SweepBuild
    \/ SweepScene
    \/ SweepChaser
    \/ SweepShow
    \/ OpenTarget
    \/ WriteTarget

SpecMerge == MergeInit /\ [][MergeNext]_vars

SpecTarget == TargetInit /\ [][MergeNext]_vars

\* Called on the SceneSets of PayloadScenes, with every option set or none,
\* on three small documents.
PayloadArguments ==
    {a \in Arguments({None}, PayloadRigs, PayloadRefs) :
        /\ a.create_flash_chaser = a.create_show
        /\ a.create_primary_sweep = a.create_show}

PayloadDocuments ==
    DocumentsUpTo(0)
    \cup {Workspace(<<Creator, Engine(<<FixtureElement, MonitorElement>>),
                      VirtualConsole>>)}

PayloadInit == Start(PayloadArguments, PayloadDocuments)

SpecPayload == PayloadInit /\ [][MergeNext]_vars

\* Called with step and total durations of the caller's choice.
ShowSteps == {DefaultShowStepMs, 250}
FlashSteps == {DefaultFlashStepMs, 40}
FlashTotals == {DefaultFlashTotalMs, 1000}

TimingArguments ==
    { [a EXCEPT !.show_step_ms = t[1], !.flash_step_ms = t[2],
                !.flash_total_ms = t[3]] :
        a \in Arguments({None}, PlainRigs, PlainRefs),
        t \in ShowSteps \X FlashSteps \X FlashTotals }

TimingInit == Start(TimingArguments, DocumentsUpTo(MaxTargetChildren))

SpecTiming == TimingInit /\ [][MergeNext]_vars

\* Called on the rigs of SweepRigs, with every option set or none.
SweepArguments ==
    {a \in Arguments({None}, SweepRigs, PlainRefs) :
        /\ a.create_flash_chaser = a.create_show
        /\ a.create_primary_sweep = a.create_show}

SweepInit == Start(SweepArguments, PayloadDocuments)

SpecSweep == SweepInit /\ [][MergeNext]_vars

-----------------------------------------------------------------------------
(* scene_mapper.py.  A dict is the sequence of its items, in insertion     *)
(* order, with no key twice.                                               *)

Has(dict, key) == \E i \in 1..Len(dict) : dict[i].key = key

\* dict.get(key, default)
Get(dict, key, default) ==
    IF Has(dict, key)
    THEN dict[CHOOSE i \in 1..Len(dict) : dict[i].key = key].value
    ELSE default

White == <<255, 255, 255>>
DefaultLeft == <<255, 128, 64>>
DefaultRight == <<64, 160, 255>>

\* str.lower() on the focus tags
FocusLower(focus) ==
    IF focus \in {"mixed", "Mixed", "MIXED"} THEN "mixed"
    ELSE IF focus \in {"wash", "Wash"} THEN "wash"
    ELSE focus

\* Mutant of NameToFixture: a name of no fixture falls back to the rig's
\* first fixture.
NameOrFirstFixture(rig, n) ==
    LET hits == {i \in 1..Len(rig) : rig[i].name = n}
    IN  IF hits = {} THEN (IF rig = <<>> THEN None ELSE Some(rig[1]))
        ELSE Some(rig[CHOOSE i \in hits : \A j \in hits : j <= i])

\* name_to_fixture = {fx.name: fx for fx in rig.fixtures}: the last fixture
\* of a name is the one kept
NameToFixture(rig, n) ==
    LET hits == {i \in 1..Len(rig) : rig[i].name = n}
    IN  IF hits = {} THEN None
        ELSE Some(rig[CHOOSE i \in hits : \A j \in hits : j <= i])

\* [name_to_fixture[n] for n in names if n in name_to_fixture]
RECURSIVE FixturesNamed(_, _)
FixturesNamed(rig, names) ==
    IF names = <<>> THEN <<>>
    ELSE NameToFixture(rig, names[1]) \o FixturesNamed(rig, Tail(names))

_index_fixtures_by_category(rig, fixture_categories) ==
    [c \in 1..Len(fixture_categories) |->
        Item(fixture_categories[c].key,
             FixturesNamed(rig, fixture_categories[c].value))]

\* dict[key] = value: a key the dict has keeps its place
Put(dict, key, value) ==
    IF Has(dict, key)
    THEN [i \in 1..Len(dict) |-> IF dict[i].key = key THEN Item(key, value) ELSE dict[i]]
    ELSE Append(dict, Item(key, value))

\* for alias, target in aliases.items():
\*     if target in categories: normalized[alias] = categories[target]
RECURSIVE Normalize(_, _, _)
Normalize(normalized, aliases, categories) ==
    IF aliases = <<>> THEN normalized
    ELSE Normalize(IF Has(categories, aliases[1].value)
                   THEN Put(normalized, aliases[1].key,
                            Get(categories, aliases[1].value, <<>>))
                   ELSE normalized,
                   Tail(aliases), categories)

\* load_fixture_categories: {} when the file cannot be read or parsed
load_fixture_categories(file) ==
    IF ~file.ok THEN <<>>
    ELSE Normalize(file.categorias, file.aliases, file.categorias)

\* Mutant of ExtendAll: a fixture that is a target already is not added again.
RECURSIVE ExtendDistinct(_)
ExtendDistinct(dict) ==
    IF dict = <<>> THEN <<>>
    ELSE LET sofar == ExtendDistinct(SubSeq(dict, 1, Len(dict) - 1))
             RECURSIVE AddNew(_, _)
             AddNew(acc, lst) ==
                 IF lst = <<>> THEN acc
                 ELSE AddNew(IF \E i \in 1..Len(acc) : acc[i] = lst[1] THEN acc
                             ELSE Append(acc, lst[1]),
                             Tail(lst))
         IN  AddNew(sofar, dict[Len(dict)].value)

\* Mutant of ExtendAll: only the first category's fixtures.
ExtendFirst(dict) == IF dict = <<>> THEN <<>> ELSE dict[1].value

\* targets.extend(lst) for lst in fixtures_by_category.values()
RECURSIVE ExtendAll(_)
ExtendAll(dict) ==
    IF dict = <<>> THEN <<>> ELSE dict[1].value \o ExtendAll(Tail(dict))

_resolve_fixtures_for_focus(focus, fixtures_by_category) ==
    IF FocusLower(focus) = "mixed" THEN ExtendAll(fixtures_by_category)
    ELSE Get(fixtures_by_category, focus, <<>>)

\* int() of each of the first three entries, then max(0, min(255, .))
_tuple_rgb(value) == <<Clamp255(value[1]), Clamp255(value[2]), Clamp255(value[3])>>

\* Mutant of _colors_for_scene: a cycle is cut to its first colour.
ColorsCycleFirst(scene, palettes, count) ==
    IF count <= 0 THEN <<>>
    ELSE LET palette == Get(palettes, scene.palette, <<>>)
         IN  IF Has(palette, "split")
             THEN LET left == _tuple_rgb(Get(Get(palette, "split", <<>>), "left", DefaultLeft))
                      right == _tuple_rgb(Get(Get(palette, "split", <<>>), "right", DefaultRight))
                  IN  [i \in 1..count |-> IF (i - 1) % 2 = 0 THEN left ELSE right]
             ELSE IF Has(palette, "cycle")
             THEN LET listed == Get(palette, "cycle", <<>>)
                  IN  IF listed # <<>> THEN <<_tuple_rgb(listed[1])>> ELSE <<White>>
             ELSE [i \in 1..count |-> _tuple_rgb(Get(palette, "rgb", White))]

_colors_for_scene(scene, palettes, count) ==
    IF count <= 0 THEN <<>>
    ELSE LET palette == Get(palettes, scene.palette, <<>>)
         IN  IF Has(palette, "split")
             THEN LET left == _tuple_rgb(Get(Get(palette, "split", <<>>), "left", DefaultLeft))
                      right == _tuple_rgb(Get(Get(palette, "split", <<>>), "right", DefaultRight))
                  IN  [i \in 1..count |-> IF (i - 1) % 2 = 0 THEN left ELSE right]
             ELSE IF Has(palette, "cycle")
             THEN LET listed == Get(palette, "cycle", <<>>)
                      cycle == [k \in 1..Len(listed) |-> _tuple_rgb(listed[k])]
                  IN  IF cycle # <<>> THEN cycle ELSE <<White>>
             ELSE [i \in 1..count |-> _tuple_rgb(Get(palette, "rgb", White))]

\* int(energy / 5 * 255): the float product is the exact energy * 51 for
\* every energy of the model
Scale255(energy) == (energy * 255) \div 5

\* Mutant of Intensity: no floor of 30.
IntensityNoFloor(energy) ==
    LET raw == Scale255(energy)
    IN  IF raw > 255 THEN 255 ELSE IF raw < 0 THEN 0 ELSE raw

\* max(30, min(255, int(energy / 5 * 255)))
Intensity(energy) ==
    LET raw == Scale255(energy)
    IN  IF raw > 255 THEN 255 ELSE IF raw < 30 THEN 30 ELSE raw

\* Mutant of Scaled: the component as it is, whatever the intensity.
Unscaled(c, intensity) == c

\* int(c * intensity / 255), for c and intensity in 0..255
Scaled(c, intensity) == (c * intensity) \div 255

Max3(a, b, c) == Max2(a, Max2(b, c))

_build_channels_for_fixture(fixture, rgb, energy) ==
    LET intensity == Intensity(energy)
        r == rgb[1]
        g == rgb[2]
        b == rgb[3]
    IN  IF channel_count(fixture) >= 5
        THEN <<Item(Ch(0), intensity), Item(Ch(1), r), Item(Ch(2), g),
               Item(Ch(3), b), Item(Ch(4), Max3(r, g, b))>>
        ELSE IF channel_count(fixture) = 4
        THEN <<Item(Ch(0), intensity), Item(Ch(1), r), Item(Ch(2), g),
               Item(Ch(3), Max3(b, r, g))>>
        ELSE IF channel_count(fixture) >= 3
        THEN <<Item(Ch(0), Scaled(r, intensity)), Item(Ch(1), Scaled(g, intensity)),
               Item(Ch(2), Scaled(b, intensity))>>
        ELSE IF channel_count(fixture) >= 1
        THEN <<Item(Ch(0), intensity)>>
        ELSE <<>>

\* f"Semantic scene {scene.name} focus={scene.focus} palette=... energy=..."
Description(scene) ==
    <<"Semantic scene ", scene.name, " focus=", scene.focus,
      " palette=", scene.palette, " energy=">> \o Str(scene.energy)

apply_scene(scene, rig, palettes, fixture_categories) ==
    LET fixtures_by_category == _index_fixtures_by_category(rig, fixture_categories)
        targets == _resolve_fixtures_for_focus(scene.focus, fixtures_by_category)
        colors == _colors_for_scene(scene, palettes, Len(targets))
        states == [i \in 1..Len(targets) |->
                     LET rgb == IF colors # <<>>
                                THEN colors[((i - 1) % Len(colors)) + 1]
                                ELSE White
                     IN  FixtureState(targets[i].fixture_id,
                                      _build_channels_for_fixture(targets[i], rgb,
                                                                  scene.energy))]
    IN  [name |-> <<scene.name>>, scene_type |-> "static",
         description |-> Description(scene), states |-> states]

-----------------------------------------------------------------------------
(* apply_scene: what it is called with.                                    *)

\* The fixtures a rig is made of: a name and a channel count.  Two of them
\* carry the same name.
FixtureKinds ==
    { [name |-> <<"PAR 1">>, channels |-> 3],
      [name |-> <<"PAR 2">>, channels |-> 5],
      [name |-> <<"PAR 1">>, channels |-> 1] }

\* The rig of the given kinds, with ids "0", "1", ... as load_rig_from_qlc
\* reads them.
RigOf(kinds) ==
    [i \in 1..Len(kinds) |-> FixtureDef(DigitChars[i], kinds[i].name, kinds[i].channels)]

MapperRigs == { RigOf(kinds) : kinds \in SeqsUpTo(FixtureKinds, MaxFixtures) }

\* The names a category lists; "Ghost" is the name of no fixture.
CategoryNames == { <<"PAR 1">>, <<"PAR 2">>, <<"Ghost">> }
NameLists == SeqsUpTo(CategoryNames, MaxNames)

\* The fixture-category maps: none, one or two categories.
CategoryMaps ==
    { <<>> }
    \cup { <<Item(k, l)>> : k \in {"wash", "spot"}, l \in NameLists }
    \cup { <<Item("wash", l1), Item("spot", l2)>> : l1 \in NameLists, l2 \in NameLists }

FocusValues == {"mixed", "Mixed", "wash", "special"}

\* The palettes file: a plain colour, two split palettes (one without its
\* right colour), two cycles (one empty) and a palette with no colour key;
\* some components lie outside 0..255.
PaletteStore ==
    << Item("warm", <<Item("rgb", <<200, 100, 50>>)>>),
       Item("duo", <<Item("split", <<Item("left", <<255, 0, 0>>),
                                     Item("right", <<0, 0, 300>>)>>)>>),
       Item("half", <<Item("split", <<Item("left", <<10, 20, 30>>)>>)>>),
       Item("rainbow", <<Item("cycle", << <<255, 0, 0>>, <<0, 255, 0>>, <<-5, 0, 255>> >>)>>),
       Item("blank", <<Item("cycle", <<>>)>>),
       Item("bare", <<>>) >>

MapperScene(energy, palette, focus) ==
    [name |-> "a", energy |-> energy, palette |-> palette,
     strobe |-> "none", focus |-> focus]

Mapper(scene, rig, palettes, fixture_categories) ==
    [scene |-> scene, rig |-> rig, palettes |-> palettes,
     fixture_categories |-> fixture_categories, result |-> None]

\* apply_scene on every rig and category map, for a plain and a split palette.
ApplyInit ==
    /\ pc = "apply"
    /\ \E focus \in FocusValues, palette \in {"warm", "duo"},
          rig \in MapperRigs, categories \in CategoryMaps :
         mapper = Mapper(MapperScene(2, palette, focus), rig, PaletteStore, categories)
    /\ SelIdle /\ MergeIdle /\ GenIdle

\* The colour components and channel counts apply_scene is called with when
\* one fixture is the target.
Components == {0, 50, 100, 200, 255}
ChannelCounts == 0..6
MapperEnergies == -1..7

\* apply_scene on one fixture, for every energy, plain colour and channel
\* count.
ChannelsInit ==
    /\ pc = "apply"
    /\ \E energy \in MapperEnergies, n \in ChannelCounts,
          r \in Components, g \in Components, b \in Components :
         mapper = Mapper(MapperScene(energy, "plain", "wash"),
                         <<FixtureDef("0", <<"PAR 1">>, n)>>,
                         <<Item("plain", <<Item("rgb", <<r, g, b>>)>>)>>,
                         <<Item("wash", << <<"PAR 1">> >>)>>)
    /\ SelIdle /\ MergeIdle /\ GenIdle

\* apply_scene on rigs of up to MaxTargets fixtures of four or five channels,
\* all listed under "wash" in rig order or in reverse, for every palette of
\* the store and a key the store does not have.
MaxTargets == 4

PaletteChoices == {"warm", "duo", "half", "rainbow", "blank", "bare", "nope"}

ParName(i) == <<"PAR ", DigitChars[i + 1]>>
Reversed(seq) == [i \in 1..Len(seq) |-> seq[Len(seq) + 1 - i]]

ColoursInit ==
    /\ pc = "apply"
    /\ \E n \in 0..MaxTargets, palette \in PaletteChoices, energy \in {1, 4},
          backwards \in BOOLEAN :
         \E counts \in [1..n -> {4, 5}] :
           LET rig == [i \in 1..n |-> FixtureDef(DigitChars[i], ParName(i), counts[i])]
               names == [i \in 1..n |-> ParName(i)]
           IN  mapper = Mapper(MapperScene(energy, palette, "wash"), rig, PaletteStore,
                               <<Item("wash", IF backwards THEN Reversed(names)
                                              ELSE names)>>)
    /\ SelIdle /\ MergeIdle /\ GenIdle

ApplyScene ==
    /\ pc = "apply"
    /\ mapper' = [mapper EXCEPT
                    !.result = Some(apply_scene(mapper.scene, mapper.rig, mapper.palettes,
                                                mapper.fixture_categories))]
    /\ pc' = "applied"
    /\ UNCHANGED <<selVars, mergeVars, gen>>

ApplyNext == ApplyScene

SpecApply == ApplyInit /\ [][ApplyNext]_vars

SpecChannels == ChannelsInit /\ [][ApplyNext]_vars

SpecColours == ColoursInit /\ [][ApplyNext]_vars

\* The fixture-categories file: unreadable, or its "categorias" and its
\* "aliases" (alias -> category).  An alias may carry the name of a category.
AliasMaps ==
    LET pairs == { Item(a, t) : a \in {"lavado", "spot"}, t \in {"wash", "nope"} }
    IN  { l \in SeqsUpTo(pairs, 2) : Len(l) = 2 => l[1].key # l[2].key }

CategoryFiles ==
    { [ok |-> FALSE, categorias |-> <<>>, aliases |-> <<>>] }
    \cup { [ok |-> TRUE, categorias |-> c, aliases |-> a] :
             c \in CategoryMaps, a \in AliasMaps }

\* load_fixture_categories, then apply_scene with focus "mixed", on a rig of
\* two fixtures and on a rig of one.
MixedInit ==
    /\ pc = "load"
    /\ \E file \in CategoryFiles,
          kinds \in { << [name |-> <<"PAR 1">>, channels |-> 3],
                        [name |-> <<"PAR 2">>, channels |-> 5] >>,
                      << [name |-> <<"PAR 2">>, channels |-> 1] >> } :
         mapper = [scene |-> MapperScene(2, "warm", "mixed"), rig |-> RigOf(kinds),
                   palettes |-> PaletteStore, categories_file |-> file,
                   fixture_categories |-> <<>>, result |-> None]
    /\ SelIdle /\ MergeIdle /\ GenIdle

\* categories = load_fixture_categories(categories_file)
LoadCategories ==
    /\ pc = "load"
    /\ mapper' = [mapper EXCEPT
                    !.fixture_categories = load_fixture_categories(mapper.categories_file)]
    /\ pc' = "apply"
    /\ UNCHANGED <<selVars, mergeVars, gen>>

MixedNext ==
    \/ LoadCategories
    \/ ApplyScene

SpecMixed == MixedInit /\ [][MixedNext]_vars

\* apply_scene on one fixture, for colours with components outside 0..255.
WideComponents == {-20, 0, 100, 255, 300}

IntensityInit ==
    /\ pc = "apply"
    /\ \E energy \in MapperEnergies, n \in ChannelCounts,
          r \in WideComponents, g \in WideComponents, b \in WideComponents :
         mapper = Mapper(MapperScene(energy, "plain", "wash"),
                         <<FixtureDef("0", <<"PAR 1">>, n)>>,
                         <<Item("plain", <<Item("rgb", <<r, g, b>>)>>)>>,
                         <<Item("wash", << <<"PAR 1">> >>)>>)
    /\ SelIdle /\ MergeIdle /\ GenIdle

SpecIntensity == IntensityInit /\ [][ApplyNext]_vars

-----------------------------------------------------------------------------
(* generator.py                                                            *)

SceneSet(title, scenes) == [title |-> title, scenes |-> scenes]

\* A text that json.loads accepts stands for the value it parses to; any
\* other text for its characters.
JsonText(value) == [chars |-> "json", value |-> Some(value)]
PlainText(chars) == [chars |-> chars, value |-> None]

\* str.strip()
Strip(text) ==
    IF text.value = None /\ text.chars \in {"", " ", "  "} THEN PlainText("")
    ELSE text

\* load_scene_catalog: [] when the file cannot be read or parsed
load_scene_catalog(file) == IF file.ok THEN file.scenes ELSE <<>>

\* select_scene(ctx, scenes): every scene it may return
select_scene(ctx, scenes) ==
    LET candidates_ ==
            Relax(FilterStrobe(FilterDrop(FilterWash(FilterLastScene(FilterPalette(
                _filter_by_energy(scenes, ctx.energy, 1), ctx), ctx), ctx), ctx), ctx),
                  scenes)
    IN  IF candidates_ = <<>> THEN {None}
        ELSE {Some(ChoiceFor(candidates_, ctx.energy, t)) :
                 t \in 0..(Total(candidates_, ctx.energy) - 1)}

\* The palettes and categories: what the files hold, {} for a missing file.
LoadedPalettes(g) == IF g.palettes_exist THEN PaletteStore ELSE <<>>
LoadedCategories(g) ==
    IF g.categories_exist
    THEN <<Item("wash", << <<"PAR 1">> >>), Item("spot", << <<"PAR 2">> >>)>>
    ELSE <<>>

\* Mutant of _generate_from_catalog: the rule path never yields a SceneSet.
NeverFromCatalog(g, ctx) == {None}

\* _generate_from_catalog: every value it may return
_generate_from_catalog(g, ctx) ==
    IF g.catalog_file = None THEN {None}
    ELSE IF load_scene_catalog(g.catalog_file[1]) = <<>> THEN {None}
    ELSE { IF selected = None THEN None
           ELSE Some(SceneSet(<<"Generated for ", g.rig_name, " (rule-based)">>,
                              <<apply_scene(selected[1], g.rig, LoadedPalettes(g),
                                            LoadedCategories(g))>>)) :
             selected \in select_scene(ctx, load_scene_catalog(g.catalog_file[1])) }

\* _fallback_scene_set
RECURSIVE FallbackStates(_)
FallbackStates(rig) ==
    IF rig = <<>> THEN <<>>
    ELSE (IF rig[1].channels = <<>> THEN <<>>
          ELSE <<FixtureState(rig[1].fixture_id,
                              <<Item(rig[1].channels[1].name, 255)>>)>>)
         \o FallbackStates(Tail(rig))

_fallback_scene_set(g) ==
    SceneSet(<<"Generated for ", g.rig_name>>,
             << [name |-> <<"LLM fallback look">>, scene_type |-> "static",
                 description |-> <<"Placeholder scene for: ", g.song_description>>,
                 states |-> FallbackStates(g.rig)] >>)

\* _extract_payload_text
_extract_payload_text(response) ==
    IF Has(response, "response") THEN Strip(Get(response, "response", None))
    ELSE IF Has(response, "text") THEN Strip(Get(response, "text", None))
    ELSE IF Has(response, "content") THEN Strip(Get(response, "content", None))
    ELSE JsonText(response)

\* _scene_set_from_dict
StateFromDict(state_dict) ==
    FixtureState(Get(state_dict, "fixture_id", ""),
                 Get(state_dict, "channel_values", <<>>))
SceneFromDict(scene_dict) ==
    [name |-> Get(scene_dict, "name", <<"Unnamed Scene">>),
     scene_type |-> Get(scene_dict, "scene_type", "static"),
     description |-> Get(scene_dict, "description", None),
     states |-> [k \in 1..Len(Get(scene_dict, "states", <<>>)) |->
                    StateFromDict(Get(scene_dict, "states", <<>>)[k])]]
_scene_set_from_dict(payload) ==
    SceneSet(IF Get(payload, "title", <<>>) # <<>> THEN Get(payload, "title", <<>>)
             ELSE <<"Generated Scenes">>,
             [k \in 1..Len(Get(payload, "scenes", <<>>)) |->
                 SceneFromDict(Get(payload, "scenes", <<>>)[k])])

\* What the model client does when called: it raises RuntimeError, or it
\* returns a dict.
ModelPayload ==
    <<Item("title", <<"From the model">>),
      Item("scenes",
           << <<Item("name", <<"Model look">>),
                Item("states",
                     << <<Item("fixture_id", "0"),
                          Item("channel_values", <<Item(Ch(0), 200)>>)>> >>)>> >>)>>

Replies ==
    { [raises |-> TRUE, response |-> <<>>],
      [raises |-> FALSE, response |-> <<Item("response", PlainText(""))>>],
      [raises |-> FALSE, response |-> <<Item("text", PlainText("  "))>>],
      [raises |-> FALSE, response |-> <<Item("content", PlainText("no JSON"))>>],
      [raises |-> FALSE, response |-> <<Item("response", JsonText(ModelPayload))>>],
      [raises |-> FALSE, response |-> <<Item("text", JsonText(<<>>))>>],
      [raises |-> FALSE, response |-> ModelPayload] }

\* The catalog file: missing, unreadable, or holding some scenes.
GenPool ==
    { [name |-> "a", energy |-> 3, palette |-> "warm", strobe |-> "none", focus |-> "wash"],
      [name |-> "b", energy |-> 3, palette |-> "cool", strobe |-> "fast", focus |-> "mixed"],
      [name |-> "a", energy |-> 1, palette |-> "cool", strobe |-> "none", focus |-> "special"] }

CatalogFiles ==
    {None, Some([ok |-> FALSE, scenes |-> <<>>])}
    \cup {Some([ok |-> TRUE, scenes |-> c]) : c \in SeqsUpTo(GenPool, MaxCatalog)}

\* The contexts of the callers.
GenContexts ==
    { [energy |-> 3, last_palette |-> None, last_scene |-> None,
       is_drop |-> FALSE, strobe_allowed |-> TRUE],
      [energy |-> 3, last_palette |-> Some("warm"), last_scene |-> None,
       is_drop |-> FALSE, strobe_allowed |-> FALSE],
      [energy |-> 2, last_palette |-> None, last_scene |-> Some("b"),
       is_drop |-> TRUE, strobe_allowed |-> TRUE] }

\* A list of contexts holds references to SceneContext objects, and one
\* object may stand at several positions: `refs` names the object of each
\* position, numbered in order of first appearance, `heap` holds the objects.
FirstAppearance(refs) ==
    \A k \in 1..Len(refs) :
        refs[k] = 1 \/ \E j \in 1..(k - 1) : refs[j] >= refs[k] - 1

ContextLists(pool, n) ==
    UNION { { [heap |-> h, refs |-> r] : h \in [1..Cardinality(Range(r)) -> pool] } :
              r \in { q \in SeqsUpTo(1..n, n) : FirstAppearance(q) } }

\* The state of one call of generate_scenes_for_song: its arguments, the
\* objects its list of contexts refers to, the files it reads, what the
\* client will answer, and its locals.  `used` keeps the context as each
\* call of select_scene received it.
Generator(scene_context, scene_contexts, heap, catalog_file, files_exist, reply) ==
    [rig |-> RigOf(<< [name |-> <<"PAR 1">>, channels |-> 3],
                      [name |-> <<"PAR 2">>, channels |-> 5] >>),
     rig_name |-> "Stage",
     song_description |-> "a song",
     scene_context |-> scene_context,
     scene_contexts |-> scene_contexts,
     heap |-> heap,
     given |-> heap,
     catalog_file |-> catalog_file,
     palettes_exist |-> files_exist,
     categories_exist |-> files_exist,
     reply |-> reply,
     tried |-> <<>>,
     client_calls |-> 0,
     scenes |-> <<>>,
     picked |-> <<>>,
     used |-> <<>>,
     last_palette |-> None,
     last_scene |-> None,
     result |-> None]

GenInit ==
    /\ pc = "generate"
    /\ \E scene_context \in {None} \cup {Some(c) : c \in GenContexts},
          contexts \in {None} \cup {Some(l) : l \in ContextLists(GenContexts, MaxContexts)},
          catalog_file \in CatalogFiles,
          files_exist \in BOOLEAN,
          reply \in Replies :
         gen = IF contexts = None
               THEN Generator(scene_context, None, <<>>, catalog_file, files_exist, reply)
               ELSE Generator(scene_context, Some(contexts[1].refs), contexts[1].heap,
                              catalog_file, files_exist, reply)
    /\ SelIdle /\ MergeIdle /\ MapIdle

\* if scene_context is not None: rule_based = _generate_from_catalog(...);
\* if rule_based: return rule_based
SinglePath ==
    /\ pc = "generate"
    /\ IF gen.scene_context # None
       THEN \E rule_based \in _generate_from_catalog(gen, gen.scene_context[1]) :
              IF rule_based # None
              THEN /\ gen' = [gen EXCEPT !.tried = Append(@, "single"),
                                         !.result = rule_based]
                   /\ pc' = "returned"
              ELSE /\ gen' = [gen EXCEPT !.tried = Append(@, "single")]
                   /\ pc' = "batch"
       ELSE /\ pc' = "batch"
            /\ UNCHANGED gen
    /\ UNCHANGED <<selVars, mergeVars, mapper>>

\* if scene_contexts: _generate_multiple_from_catalog(...), up to its loop
BatchOpen ==
    /\ pc = "batch"
    /\ IF gen.scene_contexts # None /\ gen.scene_contexts[1] # <<>>
       THEN /\ gen' = [gen EXCEPT !.tried = Append(@, "batch")]
            /\ pc' = IF gen.catalog_file = None THEN "client"
                     ELSE IF load_scene_catalog(gen.catalog_file[1]) = <<>> THEN "client"
                     ELSE "batch_loop"
       ELSE /\ pc' = "client"
            /\ UNCHANGED gen
    /\ UNCHANGED <<selVars, mergeVars, mapper>>

\* if ctx.last_palette is None: ctx.last_palette = last_palette
\* if ctx.last_scene is None: ctx.last_scene = last_scene
Propagate(ctx, last_palette, last_scene) ==
    [ctx EXCEPT !.last_palette = IF @ = None THEN last_palette ELSE @,
                !.last_scene = IF @ = None THEN last_scene ELSE @]

\* One turn of `for ctx in contexts`: the object the position refers to is
\* changed in place.
BatchSelect ==
    /\ pc = "batch_loop"
    /\ Len(gen.picked) < Len(gen.scene_contexts[1])
    /\ LET i == Len(gen.picked) + 1
           ref == gen.scene_contexts[1][i]
           ctx == Propagate(gen.heap[ref], gen.last_palette, gen.last_scene)
       IN  \E selected \in select_scene(ctx, load_scene_catalog(gen.catalog_file[1])) :
             IF selected = None
             THEN gen' = [gen EXCEPT !.heap[ref] = ctx,
                                     !.used = Append(@, ctx),
                                     !.picked = Append(@, None)]
             ELSE gen' = [gen EXCEPT
                            !.heap[ref] = ctx,
                            !.used = Append(@, ctx),
                            !.picked = Append(@, selected),
                            !.scenes = Append(@, apply_scene(selected[1], gen.rig,
                                                             LoadedPalettes(gen),
                                                             LoadedCategories(gen))),
                            !.last_palette = Some(selected[1].palette),
                            !.last_scene = Some(selected[1].name)]
    /\ UNCHANGED pc
    /\ UNCHANGED <<selVars, mergeVars, mapper>>

\* After the loop: None without scenes, else the SceneSet; if
\* rule_based_set: return rule_based_set
BatchClose ==
    /\ pc = "batch_loop"
    /\ Len(gen.picked) = Len(gen.scene_contexts[1])
    /\ IF gen.scenes = <<>>
       THEN /\ pc' = "client"
            /\ UNCHANGED gen
       ELSE /\ gen' = [gen EXCEPT
                         !.result = Some(SceneSet(<<"Generated for ", gen.rig_name,
                                                    " (rule-based batch)">>,
                                                  gen.scenes))]
            /\ pc' = "returned"
    /\ UNCHANGED <<selVars, mergeVars, mapper>>

\* client.generate(prompt) and what follows it
CallClient ==
    /\ pc = "client"
    /\ gen' = [gen EXCEPT
                 !.tried = Append(@, "client"),
                 !.client_calls = @ + 1,
                 !.result =
                    IF gen.reply.raises THEN Some(_fallback_scene_set(gen))
                    ELSE LET payload_text == _extract_payload_text(gen.reply.response)
                         IN  IF payload_text = PlainText("")
                             THEN Some(_fallback_scene_set(gen))
                             ELSE IF payload_text.value = None
                             THEN Some(_fallback_scene_set(gen))
                             ELSE Some(_scene_set_from_dict(payload_text.value[1]))]
    /\ pc' = "returned"
    /\ UNCHANGED <<selVars, mergeVars, mapper>>

GenNext ==
    \/ SinglePath
    \/ BatchOpen
    \/ BatchSelect
    \/ BatchClose
    \/ CallClient

SpecGenerate == GenInit /\ [][GenNext]_vars

\* The batch driver on its own: no single context, lists of up to MaxBatch
\* positions, and a catalog whose scenes all lie in one energy window.
MaxBatch == 3

BatchPool ==
    { [name |-> "a", energy |-> 3, palette |-> "warm", strobe |-> "none", focus |-> "wash"],
      [name |-> "b", energy |-> 3, palette |-> "cool", strobe |-> "none", focus |-> "wash"],
      [name |-> "", energy |-> 3, palette |-> "", strobe |-> "none", focus |-> "wash"] }

BatchContexts ==
    { [energy |-> 3, last_palette |-> None, last_scene |-> None,
       is_drop |-> FALSE, strobe_allowed |-> TRUE],
      [energy |-> 1, last_palette |-> None, last_scene |-> None,
       is_drop |-> FALSE, strobe_allowed |-> TRUE],
      [energy |-> 3, last_palette |-> Some("warm"), last_scene |-> Some(""),
       is_drop |-> FALSE, strobe_allowed |-> TRUE] }

BatchInit ==
    /\ pc = "generate"
    /\ \E contexts \in ContextLists(BatchContexts, MaxBatch),
          catalog_file \in {None} \cup {Some([ok |-> TRUE, scenes |-> c]) :
                                           c \in SeqsUpTo(BatchPool, MaxCatalog)} :
         gen = Generator(None, Some(contexts.refs), contexts.heap, catalog_file, TRUE,
                         [raises |-> TRUE, response |-> <<>>])
    /\ SelIdle /\ MergeIdle /\ MapIdle

SpecBatch == BatchInit /\ [][GenNext]_vars

-----------------------------------------------------------------------------
(* The claims about write_scenes_to_qlc.                                   *)

\* The source document as it was when the call was made, and its Engine
\* children.
SourceRoot == before[args.path][1].body[1]
HasEngine == \E k \in 1..Len(SourceRoot.kids) : SourceRoot.kids[k].tag = "Engine"
SourceEngine == CHOOSE k \in 1..Len(SourceRoot.kids) : SourceRoot.kids[k].tag = "Engine"
SourceChildren == SourceRoot.kids[SourceEngine].kids

\* The ids of the source's Functions, as numbers.
SourceIds ==
    { Int_(SourceChildren[k].attrib.ID) :
        k \in {j \in 1..Len(SourceChildren) :
                  /\ SourceChildren[j].tag = "Function"
                  /\ "ID" \in DOMAIN SourceChildren[j].attrib} }

\* Two nodes that the contract takes for the same: same tag, same attributes.
Same(a, b) == a.tag = b.tag /\ a.attrib = b.attrib
SameAll(as, bs) == Len(as) = Len(bs) /\ \A k \in 1..Len(as) : Same(as[k], bs[k])

\* The Engine children of the document in memory and of the one written.
TreeChildren == root[1].kids[SourceEngine].kids
Written == files[loc.target[1]][1].body[1]
WrittenChildren == Written.kids[SourceEngine].kids

\* The Functions a call is to create, in the order the contract gives: their
\* Type and Name.
Kind(type, name) == [Type |-> <<type>>, Name |-> name]
ExpectedScenes ==
    [k \in 1..Len(SceneSets[args.scenes]) |-> Kind("Scene", SceneSets[args.scenes][k].name)]
ExpectedShow ==
    IF args.create_show /\ Len(SceneSets[args.scenes]) > 0
    THEN <<Kind("Show", args.show_name)>> ELSE <<>>
ExpectedFlash ==
    IF args.create_flash_chaser
    THEN <<Kind("Scene", <<"Flash ON">>), Kind("Scene", <<"Flash OFF">>),
           Kind("Chaser", args.flash_chaser_name)>>
         \o (IF args.create_show
             THEN <<Kind("Show", args.flash_chaser_name \o <<" Show">>)>> ELSE <<>>)
    ELSE <<>>
ExpectedSweep ==
    IF args.create_primary_sweep
    THEN [k \in 1..Len(SweepScenes[args.rig]) |->
             Kind("Scene", SweepScenes[args.rig][k].name)]
         \o <<Kind("Chaser", args.primary_sweep_name)>>
         \o (IF args.create_show
             THEN <<Kind("Show", args.primary_sweep_name \o <<" Show">>)>> ELSE <<>>)
    ELSE <<>>
Expected == ExpectedScenes \o ExpectedShow \o ExpectedFlash \o ExpectedSweep

Building == pc \notin {"start", "raised"}
Built == pc \in {"target", "write", "done"}

\* C1: the Functions a call creates are, in this order, the SceneSpecs'
\* scenes, the wrapping show, flash ON, flash OFF, the flash chaser, the
\* flash show, the sweep scenes, the sweep chaser and the sweep show; the
\* j-th of them has the id max(existing ids) + j, or j - 1 when no Function
\* of the source has an ID; so no new id is an existing id or another new id.
C1_ConsecutiveIds ==
    (HasEngine /\ Building) =>
        LET ids == SourceIds
            first == IF ids = {} THEN 0 ELSE Maximum(ids) + 1
            expected == Expected
        IN  /\ \A j \in 1..Len(created) :
                /\ IsDigit(created[j].ID)
                /\ Int_(created[j].ID) = first + j - 1
                /\ Int_(created[j].ID) \notin ids
                /\ j <= Len(expected)
                /\ created[j].Type = expected[j].Type
                /\ created[j].Name = expected[j].Name
            /\ \A i, j \in 1..Len(created) : created[i].ID = created[j].ID => i = j
            /\ Built => Len(created) = Len(expected)

\* C1's example: ids 0, 2 and 5 in the source, two SceneSpecs and a wrapping
\* show: the scenes get 6 and 7, the show 8.
C1_Witness ==
    /\ pc = "done"
    /\ HasEngine
    /\ SourceIds = {0, 2, 5}
    /\ Len(SceneSets[args.scenes]) = 2
    /\ args.create_show
    /\ Len(created) >= 3
    /\ created[1].ID = <<"6">> /\ created[1].Type = <<"Scene">>
    /\ created[2].ID = <<"7">> /\ created[2].Type = <<"Scene">>
    /\ created[3].ID = <<"8">> /\ created[3].Type = <<"Show">>

\* Where the block of new Functions starts: before the first Monitor of the
\* source, or after its last child.
BlockStart ==
    IF \E k \in 1..Len(SourceChildren) : SourceChildren[k].tag = "Monitor"
    THEN Least({k \in 1..Len(SourceChildren) : SourceChildren[k].tag = "Monitor"}) - 1
    ELSE Len(SourceChildren)

\* The new Functions are children BlockStart + 1 .. BlockStart + n, in
\* creation order, with the source's children around them.
OneBlock(children) ==
    LET source == SourceChildren
        start == BlockStart
    IN  /\ Len(children) = Len(source) + Len(created)
        /\ \A j \in 1..Len(created) :
              /\ children[start + j].tag = "Function"
              /\ children[start + j].attrib = created[j]
        /\ \A k \in 1..start : Same(children[k], source[k])
        /\ \A k \in (start + 1)..Len(source) :
              Same(children[k + Len(created)], source[k])

\* C2: the new Functions are one run of consecutive Engine children, in
\* creation order, that ends right before the first Monitor when the source
\* has one and at the end of the Engine otherwise; in the tree while it is
\* built and in the document written.
C2_OneBlockBeforeMonitor ==
    (HasEngine /\ Building) =>
        /\ OneBlock(TreeChildren)
        /\ pc = "done" => OneBlock(WrittenChildren)

C2_Witness ==
    /\ pc = "done"
    /\ HasEngine
    /\ Len(SourceChildren) = 3
    /\ SourceChildren[2].tag = "Monitor"
    /\ SourceChildren[3].tag = "Monitor"
    /\ Len(created) >= 3
    /\ WrittenChildren[1 + Len(created)].attrib = created[Len(created)]
    /\ WrittenChildren[2 + Len(created)].tag = "Monitor"

\* The children that are not among the new Functions.
Kept(children) ==
    SelectSeq(children,
              LAMBDA e : ~(e.tag = "Function" /\ e.attrib \in Range(created)))

Additive(r) ==
    /\ SameAll(Kept(r.kids[SourceEngine].kids), SourceChildren)
    /\ Len(r.kids[SourceEngine].kids) = Len(SourceChildren) + Len(created)
    /\ SameAll(r.kids, SourceRoot.kids)
    /\ Same(r, SourceRoot)

\* C3: every child the source's Engine had is in the output with its tag,
\* its attributes and its place among the others; what the output has more
\* are the new Functions, and nothing outside the Engine has changed its tag
\* or attributes.
C3_PurelyAdditive ==
    (HasEngine /\ Building) =>
        /\ Additive(root[1])
        /\ pc = "done" => Additive(Written)

C3_Witness ==
    /\ pc = "done"
    /\ HasEngine
    /\ Len(SourceChildren) = 3
    /\ SourceChildren[1].tag = "Fixture"
    /\ SourceChildren[2].tag = "Monitor"
    /\ SourceChildren[3].tag = "Function"
    /\ Len(created) >= 4
    /\ Len(WrittenChildren) = 3 + Len(created)

\* C4: no call writes the source file: the target is another path and the
\* source's content stays what it was.
C4_SourceNeverWritten ==
    /\ files[args.path] = before[args.path]
    /\ loc.target # None => loc.target[1] # args.path

\* C5: when the source has no Engine section the call raises: no Function is
\* built, no file is opened, created or changed, whatever the options.
C5_NoEngineNoOutput ==
    ~HasEngine =>
        /\ pc \in {"start", "raised"}
        /\ created = <<>>
        /\ loc.target = None
        /\ files = before
        /\ root # None => root[1] = SourceRoot

C5_Witness ==
    /\ pc = "raised"
    /\ ~HasEngine
    /\ args.output_path = Some(OtherPath)
    /\ args.create_show /\ args.create_flash_chaser /\ args.create_primary_sweep
    /\ Len(SceneSets[args.scenes]) > 0

-----------------------------------------------------------------------------
(* The claims about select_scene.                                          *)

\* The filters as the contract words them, one scene at a time.
InWindow(s, ctx) == s.energy - ctx.energy <= 1 /\ ctx.energy - s.energy <= 1
PaletteOk(s, ctx) == Truthy(ctx.last_palette) => s.palette # ctx.last_palette[1]
NameOk(s, ctx) == Truthy(ctx.last_scene) => s.name # ctx.last_scene[1]
WashOk(s, ctx) == ctx.energy < 3 => s.focus = "wash"
DropOk(s, ctx) == ctx.is_drop => (s.focus = "puntuales" \/ s.focus = "special")
StrobeOk(s, ctx) == ~ctx.strobe_allowed => s.strobe = "none"

OtherFiltersOk(s, ctx) ==
    InWindow(s, ctx) /\ WashOk(s, ctx) /\ DropOk(s, ctx) /\ StrobeOk(s, ctx)

PassesAll(s, ctx) ==
    OtherFiltersOk(s, ctx) /\ PaletteOk(s, ctx) /\ NameOk(s, ctx)

Passing == { i \in 1..Len(catalog) : PassesAll(catalog[i], context) }

\* C6: select_scene returns none exactly when the catalog is empty, and
\* otherwise returns a member of the catalog.
C6_NoneIffEmptyCatalog ==
    pc = "returned" =>
        /\ (chosen = None) <=> (catalog = <<>>)
        /\ chosen # None => chosen[1] \in Range(catalog)

\* C6 witness: every entry of a non-empty catalog lies outside the energy
\* window, and a scene is returned all the same.
C6_Witness ==
    /\ pc = "returned"
    /\ catalog # <<>>
    /\ \A i \in 1..Len(catalog) : ~InWindow(catalog[i], context)
    /\ chosen # None

\* C7: when some catalog scene passes every active filter, the returned
\* scene passes every active filter; when exactly one does, it is returned.
C7_ReturnedPassesFilters ==
    (pc = "returned" /\ Passing # {}) =>
        /\ chosen # None
        /\ PassesAll(chosen[1], context)
        /\ Cardinality(Passing) = 1 => \A i \in Passing : chosen[1] = catalog[i]

\* C7 witness: two entries, only the second passes (the first is shut out by
\* the strobe filter alone), and the second is returned.
C7_Witness ==
    /\ pc = "returned"
    /\ Len(catalog) = 2
    /\ Passing = {2}
    /\ ~context.strobe_allowed
    /\ InWindow(catalog[1], context) /\ catalog[1].strobe # "none"
    /\ chosen = Some(catalog[2])

\* C8: when no scene passes the filters, the final choice is made among the
\* whole original catalog, and every entry of it can be drawn.
C8_RelaxToWholeCatalog ==
    (pc \in {"choice", "returned"} /\ Passing = {}) =>
        /\ candidates = catalog
        /\ \A i \in 1..Len(catalog) :
              \E t \in 0..(Total(candidates, context.energy) - 1) :
                  ChoiceFor(candidates, context.energy, t) = catalog[i]

\* C8 witness: relaxation happened although one entry was inside the energy
\* window, and the entry returned is one outside the window.
C8_Witness ==
    /\ pc = "returned"
    /\ Passing = {}
    /\ \E i \in 1..Len(catalog) : InWindow(catalog[i], context)
    /\ chosen # None
    /\ ~InWindow(chosen[1], context)

\* An entry that differs from the context on both repetition keys and passes
\* the other filters.
FreshEntries ==
    { i \in 1..Len(catalog) :
        /\ context.last_palette # Some(catalog[i].palette)
        /\ context.last_scene # Some(catalog[i].name)
        /\ OtherFiltersOk(catalog[i], context) }

RepeatsLast(s) ==
    context.last_palette = Some(s.palette) /\ context.last_scene = Some(s.name)

\* C9: the scene returned never repeats both the last palette and the last
\* scene when another entry differs on both and passes the other filters.
C9_NoRepeatWhenAlternative ==
    (pc = "returned" /\ FreshEntries # {}) =>
        (chosen # None /\ ~RepeatsLast(chosen[1]))

\* C9 witness: the catalog holds the repeated scene and a fresh one, both
\* within the other filters, and the fresh one is returned.
C9_Witness ==
    /\ pc = "returned"
    /\ FreshEntries # {}
    /\ \E i \in 1..Len(catalog) :
          RepeatsLast(catalog[i]) /\ OtherFiltersOk(catalog[i], context)
    /\ chosen # None
    /\ ~RepeatsLast(chosen[1])

-----------------------------------------------------------------------------
(* The claims about the weighted choice.                                   *)

\* The number of equally likely draws that select the candidate at `i`.
TicketsFor(i) ==
    Cardinality({ t \in 0..(Total(candidates, context.energy) - 1) :
                    Bisect(CumWeights(Weights(candidates, context.energy)), t) = i })

EnergiesOf(cands) == [i \in 1..Len(cands) |-> cands[i].energy]

CountEnergy(cands, e) == Cardinality({ i \in 1..Len(cands) : cands[i].energy = e })

\* Target energy 3 and four candidates of energies 2, 3, 4, 3 in any order.
C10_Case ==
    /\ context.energy = 3
    /\ Len(candidates) = 4
    /\ CountEnergy(candidates, 3) = 2
    /\ CountEnergy(candidates, 2) = 1
    /\ CountEnergy(candidates, 4) = 1

\* C10 as stated: each energy-3 candidate is drawn 3 times as often as each
\* energy-2 or energy-4 candidate.
C10_ThreeTimesAsOften ==
    C10_Case =>
        \A i, j \in 1..4 :
            (candidates[i].energy = 3 /\ candidates[j].energy # 3) =>
                TicketsFor(i) = 3 * TicketsFor(j)

\* C10 amended: each energy-3 candidate is drawn 3/2 times as often as each
\* energy-2 or energy-4 candidate (3 draws against 2).
C10_ThreeToTwo ==
    C10_Case =>
        \A i, j \in 1..4 :
            (candidates[i].energy = 3 /\ candidates[j].energy # 3) =>
                /\ TicketsFor(i) = 3
                /\ TicketsFor(j) = 2
                /\ 2 * TicketsFor(i) = 3 * TicketsFor(j)

\* C10 witness: the case of the claim, with an energy-3 candidate drawn.
C10_Witness ==
    /\ C10_Case
    /\ EnergiesOf(candidates) = <<2, 3, 4, 3>>
    /\ pc = "returned"
    /\ chosen # None
    /\ chosen[1].energy = 3
    /\ ticket = 7

\* C11: at the final choice the candidate at distance d from the context's
\* energy weighs 3 for d = 0, 2 for d = 1 and 1 beyond, that is
\* max(1, 3 - d): never 0, so every candidate, far-off ones after a
\* relaxation included, has as many draws that select it as its weight.
C11_WeightAtLeastOne ==
    pc = "choice" =>
        \A i \in 1..Len(candidates) :
            LET d == IF candidates[i].energy >= context.energy
                     THEN candidates[i].energy - context.energy
                     ELSE context.energy - candidates[i].energy
                w == Weights(candidates, context.energy)[i]
            IN  /\ w = (IF d = 0 THEN 3 ELSE IF d = 1 THEN 2 ELSE 1)
                /\ w \in {1, 2, 3}
                /\ TicketsFor(i) = w

\* C11 witness: after a relaxation, a scene three or more away from the
\* context's energy, of weight 1, is the one returned although a nearer one
\* was a candidate.
C11_Witness ==
    /\ pc = "returned"
    /\ Passing = {}
    /\ Len(candidates) = 2
    /\ chosen # None
    /\ Abs(chosen[1].energy - context.energy) >= 3
    /\ \E i \in 1..2 : Abs(candidates[i].energy - context.energy) <= 1

-----------------------------------------------------------------------------
(* The claims about apply_scene.                                           *)

Result == mapper.result[1]
StateIds == [k \in 1..Len(Result.states) |-> Result.states[k].fixture_id]

\* The names of a list that name a fixture of the rig, as those fixtures'
\* ids, in list order; for a rig whose fixtures have distinct names.
Names(fixtures) == { fixtures[i].name : i \in 1..Len(fixtures) }
IdNamed(fixtures, n) ==
    fixtures[CHOOSE i \in 1..Len(fixtures) : fixtures[i].name = n].fixture_id
ListedIds(fixtures, names) ==
    LET found == SelectSeq(names, LAMBDA n : n \in Names(fixtures))
    IN  [k \in 1..Len(found) |-> IdNamed(fixtures, found[k])]

NoRepeat(seq) == \A i, j \in 1..Len(seq) : seq[i] = seq[j] => i = j

\* Focus "mixed" and two categories that share no name and list no name
\* twice, on a rig whose fixtures have distinct names.
C12_Case ==
    /\ pc = "applied"
    /\ mapper.scene.focus = "mixed"
    /\ Len(mapper.fixture_categories) = 2
    /\ NoRepeat(mapper.fixture_categories[1].value \o mapper.fixture_categories[2].value)
    /\ \A i, j \in 1..Len(mapper.rig) :
          mapper.rig[i].name = mapper.rig[j].name => i = j

\* C12: with focus "mixed" and two non-overlapping categories the states
\* are those of the first category's fixtures in its list order, then those
\* of the second category's; every rig fixture that either category names
\* has exactly one state and no other fixture has one.
C12_MixedCoversUnionOnce ==
    C12_Case =>
        LET first == mapper.fixture_categories[1].value
            second == mapper.fixture_categories[2].value
        IN  /\ StateIds = ListedIds(mapper.rig, first) \o ListedIds(mapper.rig, second)
            /\ \A i \in 1..Len(mapper.rig) :
                  Cardinality({k \in 1..Len(StateIds) :
                                  StateIds[k] = mapper.rig[i].fixture_id})
                  = (IF mapper.rig[i].name \in Range(first) \cup Range(second)
                     THEN 1 ELSE 0)
            /\ \A k \in 1..Len(StateIds) :
                  \E i \in 1..Len(mapper.rig) : StateIds[k] = mapper.rig[i].fixture_id

\* C12 witness: the second fixture of the rig is in the first category and
\* the first fixture in the second one; the states come in category order.
C12_Witness ==
    /\ C12_Case
    /\ Len(mapper.rig) = 2
    /\ mapper.fixture_categories[1].value = <<mapper.rig[2].name, <<"Ghost">> >>
    /\ mapper.fixture_categories[2].value = <<mapper.rig[1].name>>
    /\ StateIds = <<"1", "0">>

\* The one fixture, its colour and the channel map apply_scene gives it,
\* when it is called on a single fixture with a plain palette.
OneFixture == mapper.rig[1]
RawRgb == mapper.palettes[1].value[1].value
ChannelMap == Result.states[1].channel_values
ChannelKeys == [k \in 1..Len(ChannelMap) |-> ChannelMap[k].key]
ChannelValues == [k \in 1..Len(ChannelMap) |-> ChannelMap[k].value]

\* C13: a 3-channel fixture gets exactly the keys ch0, ch1, ch2, each with a
\* value in 0..255; for an energy below 5 the value is the colour component
\* times the intensity, divided by 255 and truncated, and is never above
\* the component; with the colour (200, 100, 50) at energy 2 each value is
\* strictly below its component.
C13_ThreeChannelsAttenuated ==
    (pc = "applied" /\ channel_count(OneFixture) = 3) =>
        LET energy == mapper.scene.energy
            intensity == IF energy * 51 < 30 THEN 30 ELSE energy * 51
        IN  /\ Len(Result.states) = 1
            /\ ChannelKeys = << <<"c", "h", "0">>, <<"c", "h", "1">>, <<"c", "h", "2">> >>
            /\ \A k \in 1..3 : ChannelValues[k] \in 0..255
            /\ energy < 5 =>
                  \A k \in 1..3 :
                      /\ ChannelValues[k] = (RawRgb[k] * intensity) \div 255
                      /\ ChannelValues[k] <= RawRgb[k]
            /\ (energy = 2 /\ RawRgb = <<200, 100, 50>>) =>
                  \A k \in 1..3 : ChannelValues[k] < RawRgb[k]

\* C13 witness: the claim's example; the values are 80, 40 and 20.
C13_Witness ==
    /\ pc = "applied"
    /\ channel_count(OneFixture) = 3
    /\ mapper.scene.energy = 2
    /\ RawRgb = <<200, 100, 50>>
    /\ ChannelValues = <<80, 40, 20>>


-----------------------------------------------------------------------------
(* Claims about the FixtureVal payloads.                                   *)

\* text.split(","), on a text written one character per element
RECURSIVE SplitComma(_)
SplitComma(text) ==
    IF \E i \in 1..Len(text) : text[i] = ","
    THEN LET at == Least({i \in 1..Len(text) : text[i] = ","})
         IN  <<SubSeq(text, 1, at - 1)>> \o SplitComma(SubSeq(text, at + 1, Len(text)))
    ELSE <<text>>

\* A payload read back: its (index, value) pairs, in the order written.
WellFormed(text) ==
    /\ Len(SplitComma(text)) % 2 = 0
    /\ \A i \in 1..Len(SplitComma(text)) : IsDigit(SplitComma(text)[i])
Decode(text) ==
    [m \in 1..(Len(SplitComma(text)) \div 2) |->
        [idx |-> Int_(SplitComma(text)[2 * m - 1]),
         val |-> Int_(SplitComma(text)[2 * m])]]

CountIn(seq, x) == Cardinality({i \in 1..Len(seq) : seq[i] = x})
SameBag(a, b) ==
    /\ Len(a) = Len(b)
    /\ \A i \in 1..Len(a) : CountIn(a, a[i]) = CountIn(b, a[i])

Clipped(v) == IF v > 255 THEN 255 ELSE IF v < 0 THEN 0 ELSE v

\* The pairs a state stands for: each key resolved against the state's
\* fixture, each value brought into 0..255.
PairsOf(state) ==
    [m \in 1..Len(state.channel_values) |->
        [idx |-> _resolve_channel_index(
                     FixtureIndexGet(RigPool[args.rig], state.fixture_id),
                     state.channel_values[m].key, m - 1),
         val |-> Clipped(state.channel_values[m].value)]]

\* The Function nodes of the written document that the source did not have.
NewNodes ==
    SelectSeq(WrittenChildren,
              LAMBDA e : /\ e.tag = "Function"
                         /\ "ID" \in DOMAIN e.attrib
                         /\ Int_(e.attrib.ID) \notin SourceIds)
FixtureValsOf(node) == SelectSeq(node.kids, LAMBDA e : e.tag = "FixtureVal")
Stated(scene) == SelectSeq(scene.states, LAMBDA s : s.channel_values # <<>>)
BuiltInScenes ==
    (IF args.create_flash_chaser THEN 2 ELSE 0)
    + (IF args.create_primary_sweep THEN Len(SweepScenes[args.rig]) ELSE 0)

\* C14: in the written document there is one new Scene node per SceneSpec
\* (besides the flash and sweep scenes), the k-th new node being the k-th
\* SceneSpec's; it holds one FixtureVal per state with a non-empty channel
\* map, in the states' order, none for a state with an empty map; the
\* FixtureVal's ID is the state's fixture id and its payload reads back as
\* the state's (resolved index, clamped value) pairs in ascending index order.
C14_PayloadDecodes ==
    (pc = "done" /\ HasEngine) =>
        LET scenes == SceneSets[args.scenes]
            nodes == NewNodes
        IN  /\ Cardinality({p \in 1..Len(nodes) : nodes[p].attrib.Type = <<"Scene">>})
                 = Len(scenes) + BuiltInScenes
            /\ \A k \in 1..Len(scenes) :
                 LET vals == FixtureValsOf(nodes[k])
                     states == Stated(scenes[k])
                 IN  /\ nodes[k].attrib.Type = <<"Scene">>
                     /\ nodes[k].attrib.Name = scenes[k].name
                     /\ Len(vals) = Len(states)
                     /\ \A q \in 1..Len(vals) :
                          LET pairs == Decode(vals[q].text)
                          IN  /\ vals[q].attrib.ID = <<states[q].fixture_id>>
                              /\ WellFormed(vals[q].text)
                              /\ SameBag(pairs, PairsOf(states[q]))
                              /\ \A m \in 1..(Len(pairs) - 1) :
                                   pairs[m].idx <= pairs[m + 1].idx

\* C14's example: a state of fixture "0" with ch0 = 128 is written as the
\* payload 0,128; the scene's other state has its own FixtureVal.
C14_Witness ==
    /\ pc = "done" /\ HasEngine
    /\ SceneSets[args.scenes][1].states[1] =
         FixtureState("0", <<Item(Ch(0), 128)>>)
    /\ Len(FixtureValsOf(NewNodes[1])) = 2
    /\ FixtureValsOf(NewNodes[1])[1].attrib.ID = <<"0">>
    /\ FixtureValsOf(NewNodes[1])[1].text = <<"0", ",", "1", "2", "8">>


\* C15: in every FixtureVal payload of the written document the channel
\* indices are in ascending order and no index occurs twice.
C15_NoIndexTwice ==
    (pc = "done" /\ HasEngine) =>
        \A p \in 1..Len(NewNodes) :
            \A q \in 1..Len(FixtureValsOf(NewNodes[p])) :
                LET pairs == Decode(FixtureValsOf(NewNodes[p])[q].text)
                IN  \A m \in 1..(Len(pairs) - 1) : pairs[m].idx < pairs[m + 1].idx


-----------------------------------------------------------------------------
(* Claims about the shows and chasers.                                     *)

NewOfType(type) == SelectSeq(NewNodes, LAMBDA e : e.attrib.Type = <<type>>)

\* The members of a Show node: the ShowFunction children of its Track.
Members(show) ==
    LET track == show.kids[Least({k \in 1..Len(show.kids) : show.kids[k].tag = "Track"})]
    IN  SelectSeq(track.kids, LAMBDA e : e.tag = "ShowFunction")

\* A show wraps a chaser when a member carries the id of a new Chaser node.
WrapsChaser(show) ==
    \E k \in 1..Len(Members(show)) :
        \E c \in 1..Len(NewOfType("Chaser")) :
            NewOfType("Chaser")[c].attrib.ID = Members(show)[k].attrib.ID

\* C16: with create_show and a non-empty SceneSet the written document has
\* one Show node that wraps no chaser; it comes right after the SceneSpecs'
\* scenes, and its members carry their ids in SceneSet order, the member at
\* position k (from 0) with StartTime k * show_step_ms and Duration
\* show_step_ms.  The member of a show that wraps a chaser has Duration 0.
\* With an empty SceneSet, or without create_show, no such show is written.
C16_WrappingShow ==
    (pc = "done" /\ HasEngine) =>
        LET n == Len(SceneSets[args.scenes])
            nodes == NewNodes
            shows == NewOfType("Show")
            plain == SelectSeq(shows, LAMBDA s : ~WrapsChaser(s))
        IN  /\ Len(plain) = IF args.create_show /\ n > 0 THEN 1 ELSE 0
            /\ Len(plain) = 1 =>
                 /\ plain[1] = nodes[n + 1]
                 /\ plain[1].attrib.Name = args.show_name
                 /\ Len(Members(plain[1])) = n
                 /\ \A k \in 0..(n - 1) :
                      LET member == Members(plain[1])[k + 1]
                      IN  /\ member.attrib.ID = nodes[k + 1].attrib.ID
                          /\ nodes[k + 1].attrib.Name = SceneSets[args.scenes][k + 1].name
                          /\ member.attrib.StartTime = Str(k * args.show_step_ms)
                          /\ member.attrib.Duration = Str(args.show_step_ms)
            /\ \A s \in 1..Len(shows) :
                 WrapsChaser(shows[s]) =>
                     /\ Len(Members(shows[s])) = 1
                     /\ Members(shows[s])[1].attrib.Duration = <<"0">>

\* A call with create_show, two SceneSpecs and a step of 250 ms, the flash
\* chaser wrapped as well: members at 0 and 250, each 250 long.
C16_Witness ==
    /\ pc = "done" /\ HasEngine
    /\ args.create_show /\ args.create_flash_chaser
    /\ args.show_step_ms = 250
    /\ Len(SceneSets[args.scenes]) = 2
    /\ Len(NewOfType("Show")) >= 2
    /\ Members(NewNodes[3])[2].attrib.StartTime = <<"2", "5", "0">>
    /\ Members(NewNodes[3])[2].attrib.Duration = <<"2", "5", "0">>
    /\ \E s \in 1..Len(NewOfType("Show")) : WrapsChaser(NewOfType("Show")[s])


\* The children of a node with a given tag.
Tagged(node, tag) == SelectSeq(node.kids, LAMBDA e : e.tag = tag)

\* How many new nodes precede the flash composite's.
BeforeFlash ==
    Len(SceneSets[args.scenes])
    + (IF args.create_show /\ Len(SceneSets[args.scenes]) > 0 THEN 1 ELSE 0)

\* C17: with create_flash_chaser the written document has, one after the
\* other, a Scene "Flash ON", a Scene "Flash OFF" and a Chaser of exactly two
\* steps, numbered 0 and 1, the first carrying the ON scene's id and the
\* second the OFF scene's, each with FadeIn 0, FadeOut 0 and Hold
\* flash_step_ms; the chaser's run order is Loop and its direction Forward.
\* With create_show the next node is a Show whose single member carries the
\* chaser's id; without it no show wraps the chaser.  Without
\* create_flash_chaser none of these nodes is written.
C17_FlashChaser ==
    (pc = "done" /\ HasEngine) =>
        LET nodes == NewNodes
            b == BeforeFlash
            wrapping(c) == {s \in 1..Len(nodes) :
                              /\ nodes[s].attrib.Type = <<"Show">>
                              /\ \E k \in 1..Len(Members(nodes[s])) :
                                   Members(nodes[s])[k].attrib.ID = nodes[c].attrib.ID}
        IN  IF args.create_flash_chaser
            THEN /\ Len(nodes) >= b + 3
                 /\ nodes[b + 1].attrib.Type = <<"Scene">>
                 /\ nodes[b + 1].attrib.Name = <<"Flash ON">>
                 /\ nodes[b + 2].attrib.Type = <<"Scene">>
                 /\ nodes[b + 2].attrib.Name = <<"Flash OFF">>
                 /\ nodes[b + 3].attrib.Type = <<"Chaser">>
                 /\ nodes[b + 3].attrib.Name = args.flash_chaser_name
                 /\ Len(NewOfType("Chaser")) = IF args.create_primary_sweep THEN 2 ELSE 1
                 /\ LET steps == Tagged(nodes[b + 3], "Step")
                    IN  /\ Len(steps) = 2
                        /\ steps[1].attrib.Number = <<"0">>
                        /\ steps[2].attrib.Number = <<"1">>
                        /\ steps[1].text = nodes[b + 1].attrib.ID
                        /\ steps[2].text = nodes[b + 2].attrib.ID
                        /\ \A k \in 1..2 :
                             /\ steps[k].attrib.FadeIn = <<"0">>
                             /\ steps[k].attrib.FadeOut = <<"0">>
                             /\ steps[k].attrib.Hold = Str(args.flash_step_ms)
                 /\ Len(Tagged(nodes[b + 3], "RunOrder")) = 1
                 /\ Tagged(nodes[b + 3], "RunOrder")[1].text = <<"Loop">>
                 /\ Len(Tagged(nodes[b + 3], "Direction")) = 1
                 /\ Tagged(nodes[b + 3], "Direction")[1].text = <<"Forward">>
                 /\ IF args.create_show
                    THEN /\ wrapping(b + 3) = {b + 4}
                         /\ Len(Members(nodes[b + 4])) = 1
                    ELSE wrapping(b + 3) = {}
            ELSE \A p \in 1..Len(nodes) :
                    /\ nodes[p].attrib.Name \notin {<<"Flash ON">>, <<"Flash OFF">>}
                    /\ nodes[p].attrib.Type = <<"Chaser">> =>
                          nodes[p].attrib.Name # args.flash_chaser_name

\* A call with create_flash_chaser, create_show and a 40 ms step on a source
\* without Functions: flash ON is 0, flash OFF 1, the chaser 2, its show 3.
C17_Witness ==
    /\ pc = "done" /\ HasEngine
    /\ args.create_flash_chaser /\ args.create_show
    /\ args.flash_step_ms = 40
    /\ Len(SceneSets[args.scenes]) = 0
    /\ SourceIds = {}
    /\ Tagged(NewNodes[3], "Step")[2].attrib.Hold = <<"4", "0">>
    /\ Tagged(NewNodes[3], "Step")[2].text = <<"1">>
    /\ Members(NewNodes[4])[1].attrib.ID = <<"2">>


\* Every attribute value and text in a node and below it.
RECURSIVE TextsIn(_)
TextsIn(node) ==
    {node.attrib[a] : a \in DOMAIN node.attrib}
    \cup {node.text}
    \cup UNION {TextsIn(node.kids[k]) : k \in 1..Len(node.kids)}

\* The Show node written for the flash composite.
FlashShowNode == NewNodes[BeforeFlash + 4]

\* What a Show node says, white space apart: its attributes, its children's
\* and its members'.
ShowShape(show) ==
    [attrib |-> show.attrib,
     kids |-> [k \in 1..Len(show.kids) |-> show.kids[k].attrib],
     members |-> [k \in 1..Len(Members(show)) |-> Members(show)[k].attrib]]

\* C18: the Show node written for the flash composite carries
\* flash_total_ms: the number is among its attribute values and texts, and
\* the node differs from the one a call with another flash_total_ms, all
\* else equal, writes.
C18_ShowCarriesTotal ==
    (pc = "done" /\ HasEngine /\ args.create_flash_chaser /\ args.create_show) =>
        /\ Str(args.flash_total_ms) \in TextsIn(FlashShowNode)
        /\ \A other \in FlashTotals \ {args.flash_total_ms} :
             ShowShape(FlashShowNode) #
                 ShowShape(ShowElement(Int_(FlashShowNode.attrib.ID),
                                       <<Int_(FlashShowNode.attrib.ID) - 1>>,
                                       args.flash_chaser_name \o <<" Show">>,
                                       other, TRUE))


-----------------------------------------------------------------------------
(* Claims about the sweep composite.                                       *)

TheRig == RigPool[args.rig]

\* The anchor: the first fixture whose name contains "Barras LED"; the wash
\* fixtures; the sweep targets: the wash fixtures other than the anchor.
\* All as positions in the rig, in rig order.
Named(fixture, piece) == \E i \in 1..Len(fixture.name) : fixture.name[i] = piece
Bars == {i \in 1..Len(TheRig) : Named(TheRig[i], "Barras LED")}
HasAnchor == Bars # {}
Anchor == CHOOSE i \in Bars : \A j \in Bars : i <= j
Washes ==
    SelectSeq([i \in 1..Len(TheRig) |-> i],
              LAMBDA i : Named(TheRig[i], "VDPLPS36B2") \/ Named(TheRig[i], "Barras LED"))
Targets == SelectSeq(Washes, LAMBDA i : ~(HasAnchor /\ i = Anchor))

\* Blue at an intensity, and off, as (index, value) pairs for a fixture of n
\* channels: a dimmer and blue on the fourth channel from four channels on,
\* blue on the third channel with three, a dimmer alone below.
BluePairs(n, intensity) ==
    IF n >= 4
    THEN [k \in 1..(IF n >= 5 THEN 5 ELSE 4) |->
             [idx |-> k - 1,
              val |-> IF k = 1 THEN intensity ELSE IF k = 4 THEN 255 ELSE 0]]
    ELSE IF n = 3
    THEN [k \in 1..3 |-> [idx |-> k - 1, val |-> IF k = 3 THEN 255 ELSE 0]]
    ELSE IF n >= 1 THEN <<[idx |-> 0, val |-> intensity]>>
    ELSE <<>>
OffPairs(n) ==
    [k \in 1..(IF n >= 5 THEN 5 ELSE IF n >= 3 THEN n ELSE IF n >= 1 THEN 1 ELSE 0) |->
        [idx |-> k - 1, val |-> 0]]

\* The new nodes of the sweep composite: its scenes, then its chaser.
BeforeSweep ==
    BeforeFlash
    + (IF args.create_flash_chaser THEN (IF args.create_show THEN 4 ELSE 3) ELSE 0)
SweepChaserAt ==
    Least({p \in (BeforeSweep + 1)..Len(NewNodes) :
              NewNodes[p].attrib.Type = <<"Chaser">>})
SweepChaserNode == NewNodes[SweepChaserAt]
SweepNodes ==
    [k \in 1..(SweepChaserAt - BeforeSweep - 1) |-> NewNodes[BeforeSweep + k]]
SweepSteps == Tagged(SweepChaserNode, "Step")

\* What a Scene node says of a fixture: the pairs of its FixtureVals.
Said(node, fixture) ==
    SelectSeq([q \in 1..Len(FixtureValsOf(node)) |->
                  IF FixtureValsOf(node)[q].attrib.ID = <<fixture.fixture_id>>
                  THEN Decode(FixtureValsOf(node)[q].text) ELSE <<>>],
              LAMBDA pairs : pairs # <<>>)

Swept == pc = "done" /\ HasEngine /\ args.create_primary_sweep


Channels(i) == Len(TheRig[i].channels)

\* C19, as stated: for every rig there is one sweep scene per sweep target,
\* in rig order, each a Scene node of its own and the step of the sweep
\* chaser at its position; in each of them the anchor is present and lit dim
\* blue, exactly one sweep target is lit blue, and every other sweep target
\* has all its channels at 0.
C19_OneTargetLit ==
    Swept =>
        /\ Len(SweepNodes) = Len(Targets)
        /\ Len(SweepSteps) = Len(SweepNodes)
        /\ \A k \in 1..Len(SweepNodes) :
             LET node == SweepNodes[k]
                 lit == {t \in 1..Len(Targets) :
                            /\ Channels(Targets[t]) >= 1
                            /\ Said(node, TheRig[Targets[t]])
                                 = <<BluePairs(Channels(Targets[t]), TargetIntensity)>>}
             IN  /\ node.attrib.Type = <<"Scene">>
                 /\ node.attrib.Name = <<"Sweep ">> \o TheRig[Targets[k]].name
                 /\ SweepSteps[k].text = node.attrib.ID
                 /\ HasAnchor
                 /\ Channels(Anchor) >= 1
                 /\ Said(node, TheRig[Anchor])
                      = <<BluePairs(Channels(Anchor), BarIntensity)>>
                 /\ lit = {k}
                 /\ \A t \in (1..Len(Targets)) \ lit :
                      /\ Channels(Targets[t]) >= 1
                      /\ Said(node, TheRig[Targets[t]]) = <<OffPairs(Channels(Targets[t]))>>

\* The FixtureVals of a node: ids and pairs.
Sayings(node) ==
    [q \in 1..Len(FixtureValsOf(node)) |->
        [id |-> FixtureValsOf(node)[q].attrib.ID,
         pairs |-> Decode(FixtureValsOf(node)[q].text)]]

\* The fixtures the sweep goes over: the sweep targets, or, when there is
\* none, the wash fixtures (the anchor alone).
SweptOver == IF Targets # <<>> THEN Targets ELSE Washes

\* C19, amended: there is one sweep scene per fixture of SweptOver, in rig
\* order, named "Sweep <fixture>", each a Scene node of its own and the step
\* of the sweep chaser at its position.  Each scene holds, in this order,
\* the anchor's state if the rig has an anchor (blue at intensity 128), then
\* one state per sweep target: blue at intensity 180 for the scene's own
\* target, all channels 0 for the others.  A fixture without channels gets
\* no FixtureVal.  So with an anchor and sweep targets that have channels,
\* exactly one target is lit in each scene and the anchor is lit in all.
C19_SweepScenes ==
    Swept =>
        /\ Len(SweepNodes) = Len(SweptOver)
        /\ Len(SweepSteps) = Len(SweepNodes)
        /\ \A k \in 1..Len(SweepNodes) :
             LET node == SweepNodes[k]
                 anchor == IF HasAnchor /\ Channels(Anchor) >= 1
                           THEN <<[id |-> <<TheRig[Anchor].fixture_id>>,
                                   pairs |-> BluePairs(Channels(Anchor), BarIntensity)]>>
                           ELSE <<>>
                 stated == SelectSeq(Targets, LAMBDA t : Channels(t) >= 1)
                 targets == [q \in 1..Len(stated) |->
                               [id |-> <<TheRig[stated[q]].fixture_id>>,
                                pairs |-> IF stated[q] = SweptOver[k]
                                          THEN BluePairs(Channels(stated[q]), TargetIntensity)
                                          ELSE OffPairs(Channels(stated[q]))]]
             IN  /\ node.attrib.Type = <<"Scene">>
                 /\ node.attrib.Name = <<"Sweep ">> \o TheRig[SweptOver[k]].name
                 /\ Sayings(node) = anchor \o targets
                 /\ SweepSteps[k].text = node.attrib.ID
                 /\ SweepSteps[k].attrib.Number = Str(k - 1)
                 /\ SweepSteps[k].attrib.Hold = Str(args.primary_sweep_step_ms)

\* A rig of a 5-channel wash, the 3-channel bar and a 3-channel wash: two
\* sweep scenes; in the second the bar says 0,0,1,0,2,255, the first wash is
\* off and the second wash is blue.
C19_Witness ==
    /\ Swept
    /\ Len(TheRig) = 3
    /\ HasAnchor /\ Anchor = 2 /\ Channels(2) = 3
    /\ Targets = <<1, 3>>
    /\ Channels(1) = 5 /\ Channels(3) = 3
    /\ Len(SweepNodes) = 2
    /\ FixtureValsOf(SweepNodes[2])[1].text
         = <<"0", ",", "0", ",", "1", ",", "0", ",", "2", ",", "2", "5", "5">>
    /\ Said(SweepNodes[2], TheRig[1]) = <<OffPairs(5)>>
    /\ Said(SweepNodes[2], TheRig[3]) = <<BluePairs(3, TargetIntensity)>>


-----------------------------------------------------------------------------
(* Claims about generate_scenes_for_song.                                  *)

Returned == pc = "returned"

\* The strategies the caller supplied a context for.
Supplied ==
    (IF gen.scene_context # None THEN <<"single">> ELSE <<>>)
    \o (IF gen.scene_contexts # None /\ gen.scene_contexts[1] # <<>>
        THEN <<"batch">> ELSE <<>>)

\* The catalog as the call finds it: missing, unreadable and empty are alike.
CatalogScenes ==
    IF gen.catalog_file = None THEN <<>>
    ELSE IF gen.catalog_file[1].ok THEN gen.catalog_file[1].scenes
    ELSE <<>>

IsPrefix(a, b) == Len(a) <= Len(b) /\ SubSeq(b, 1, Len(a)) = a
RuleBased(scene_set) ==
    /\ Len(scene_set.title) = 3
    /\ scene_set.title[3] \in {" (rule-based)", " (rule-based batch)"}

\* C20: the strategies tried are, in this order, a prefix of: the single
\* path, the batch path, the client, those without a context left out; when
\* the call returns, the client has been called at most once, and it has
\* been called exactly when no context was supplied or the catalog is
\* missing, unreadable or empty; otherwise the result is a rule-based
\* SceneSet of at least one scene, from the first supplied strategy.
C20_StrategyOrder ==
    gen # <<>> =>
        /\ IsPrefix(gen.tried, Supplied \o <<"client">>)
        /\ gen.client_calls = CountIn(gen.tried, "client")
        /\ Returned =>
             /\ gen.result # None
             /\ gen.client_calls = (IF Supplied = <<>> \/ CatalogScenes = <<>> THEN 1 ELSE 0)
             /\ gen.client_calls = 1 <=> gen.tried = Supplied \o <<"client">>
             /\ gen.client_calls = 0 =>
                  /\ gen.tried = <<Supplied[1]>>
                  /\ RuleBased(gen.result[1])
                  /\ Len(gen.result[1].scenes) >= 1
             /\ gen.client_calls = 1 => ~RuleBased(gen.result[1])

\* A call with a scene_context, a list of contexts and a catalog of two
\* scenes returns from the single path with one scene; the client is not
\* called.
C20_Witness ==
    /\ gen # <<>> /\ Returned
    /\ gen.scene_context # None
    /\ gen.scene_contexts # None /\ Len(gen.scene_contexts[1]) = 2
    /\ Len(CatalogScenes) = 2
    /\ gen.tried = <<"single">>
    /\ gen.client_calls = 0
    /\ Len(gen.result[1].scenes) = 1

-----------------------------------------------------------------------------
(* Claims about the batch driver.                                          *)

\* The caller left last_palette and last_scene unset in every context.
BothUnset ==
    \A k \in 1..Len(gen.given) :
        gen.given[k].last_palette = None /\ gen.given[k].last_scene = None

SharesKey(s, t) == s.name = t.name \/ s.palette = t.palette

\* The scenes of the catalog that pass every filter of select_scene for the
\* context of turn i, as select_scene received it.
PassingAt(i) ==
    { k \in 1..Len(CatalogScenes) : PassesAll(CatalogScenes[k], gen.used[i]) }

\* C21: in a batch whose contexts all leave last_palette and last_scene
\* unset, a scene that shares its name or its palette with the scene selected
\* just before it was selected under relaxation: no catalog scene passed
\* every filter for its context.
C21_NoConsecutiveRepeat ==
    (gen # <<>> /\ BothUnset) =>
        \A i \in 2..Len(gen.picked) :
            SharesKey(gen.picked[i][1], gen.picked[i - 1][1]) => PassingAt(i) = {}

-----------------------------------------------------------------------------
(* Claims about what select_scene leaves alone.                            *)

\* C22: no step of select_scene, with or without relaxation, changes a field
\* of the context (energy, last_palette, last_scene, is_drop,
\* strobe_allowed, section, tempo) or the content or order of the catalog.
C22_InputsUnchanged ==
    [][ /\ context'.energy = context.energy
        /\ context'.last_palette = context.last_palette
        /\ context'.last_scene = context.last_scene
        /\ context'.is_drop = context.is_drop
        /\ context'.strobe_allowed = context.strobe_allowed
        /\ context'.section = context.section
        /\ context'.tempo = context.tempo
        /\ DOMAIN context' = DOMAIN context
        /\ Len(catalog') = Len(catalog)
        /\ \A i \in 1..Len(catalog) : catalog'[i] = catalog[i] ]_vars

\* C22 witness: a call that relaxed (no entry of a two-scene catalog passes
\* the filters) has returned a scene, for a context with a section and a
\* tempo, a last palette and a last scene.
C22_Witness ==
    /\ pc = "returned"
    /\ Len(catalog) = 2
    /\ Passing = {}
    /\ chosen # None
    /\ context.section # None /\ context.tempo # None
    /\ context.last_palette # None /\ context.last_scene # None

-----------------------------------------------------------------------------
(* Claims about the resolution of channel keys.                            *)

\* The four rules as the contract words them.
AllDigits(key) ==
    key # <<>> /\ \A i \in 1..Len(key) : key[i] \in Range(DigitChars)
PrefixWords == { <<"c", "h">>, <<"c", "h", "a", "n", "n", "e", "l">>,
                 <<"c", "h", "a", "n">> }
PrefixCuts(key) ==
    { n \in 1..Len(key) : /\ Lower(SubSeq(key, 1, n)) \in PrefixWords
                          /\ AllDigits(SubSeq(key, n + 1, Len(key))) }
SameName(channel, key) == Lower(channel.name) = Lower(key)
Namesakes(fixture, key) ==
    IF fixture = None THEN <<>>
    ELSE SelectSeq(fixture[1].channels, LAMBDA c : SameName(c, key))

RuleIndex(fixture, key, position) ==
    IF AllDigits(key) THEN Int_(key)
    ELSE IF PrefixCuts(key) # {}
    THEN Int_(SubSeq(key, (CHOOSE n \in PrefixCuts(key) : TRUE) + 1, Len(key)))
    ELSE IF Namesakes(fixture, key) # <<>> THEN Namesakes(fixture, key)[1].index
    ELSE position

\* The first state of the scene handed in, its fixture in the rig (if any)
\* and the FixtureVal written for it.
FirstState == SceneSets[args.scenes][1].states[1]
FirstFixture == FixtureIndexGet(RigPool[args.rig], FirstState.fixture_id)
FirstVal == FixtureValsOf(NewNodes[1])[1]
RulePairs ==
    [m \in 1..Len(FirstState.channel_values) |->
        [idx |-> RuleIndex(FirstFixture, FirstState.channel_values[m].key, m - 1),
         val |-> Clipped(FirstState.channel_values[m].value)]]

\* C23: every channel key of a written state is resolved by the first rule
\* that applies: an all-digit key is its own number; a key made of ch,
\* channel or chan (in any letter case) and digits is that number; else the
\* index of the fixture's channel of that name, letter case aside; else the
\* key's position in the channel map.  The key "Ch2" is written as index 2
\* on a fixture whose channel "ch2" has index 1.
C23_RuleOrder ==
    (pc = "done" /\ HasEngine /\ FirstState.channel_values # <<>>) =>
        /\ SameBag(Decode(FirstVal.text), RulePairs)
        /\ \A m \in 1..Len(FirstState.channel_values) :
              (FirstState.channel_values[m].key = <<"C", "h", "2">>) =>
                  \E q \in 1..Len(Decode(FirstVal.text)) :
                      Decode(FirstVal.text)[q].idx = 2

\* C23 witness: on the fixture with the channel "ch2" at index 1, the map
\* {"Ch2": 128} has been written as the payload 2,128.
C23_Witness ==
    /\ pc = "done" /\ HasEngine
    /\ FirstState = FixtureState("0", <<Item(<<"C", "h", "2">>, 128)>>)
    /\ FirstFixture = Some(NamedFixture)
    /\ FirstVal.text = <<"2", ",", "1", "2", "8">>

-----------------------------------------------------------------------------
(* Claims about states of fixtures the rig does not have.                  *)

UnknownFixture == \A k \in 1..Len(RigPool[args.rig]) :
                      RigPool[args.rig][k].fixture_id # FirstState.fixture_id

\* A key that names its index itself: all digits, or ch, channel or chan
\* and digits.
NumberKey(key) == AllDigits(key) \/ PrefixCuts(key) # {}
PositionPairs ==
    [m \in 1..Len(FirstState.channel_values) |->
        [idx |-> m - 1, val |-> Clipped(FirstState.channel_values[m].value)]]
UnknownPairs ==
    [m \in 1..Len(FirstState.channel_values) |->
        [idx |-> IF NumberKey(FirstState.channel_values[m].key)
                 THEN RuleIndex(None, FirstState.channel_values[m].key, m - 1)
                 ELSE m - 1,
         val |-> Clipped(FirstState.channel_values[m].value)]]

\* C24, as stated: a state of a fixture id the rig does not have raises no
\* error, is written as a FixtureVal with that id, and every one of its
\* channel values is written at its key's position in the channel map.
C24_AllPositional ==
    (HasEngine /\ UnknownFixture) =>
        /\ pc # "raised"
        /\ (pc = "done" /\ FirstState.channel_values # <<>>) =>
              /\ FirstVal.attrib.ID = <<FirstState.fixture_id>>
              /\ SameBag(Decode(FirstVal.text), PositionPairs)

\* C24, amended: a state of a fixture id the rig does not have raises no
\* error and, when its channel map is not empty, is written as a FixtureVal
\* with that id; a key that names its index (all digits, or ch, channel or
\* chan and digits) is written at that index, every other key at its
\* position in the channel map, whatever the channels of the rig are called.
C24_UnknownFixtureTolerated ==
    (HasEngine /\ UnknownFixture) =>
        /\ pc # "raised"
        /\ (pc = "done" /\ FirstState.channel_values # <<>>) =>
              /\ FirstVal.attrib.ID = <<FirstState.fixture_id>>
              /\ SameBag(Decode(FirstVal.text), UnknownPairs)
        /\ (pc = "done" /\ FirstState.channel_values = <<>>) =>
              /\ Len(FixtureValsOf(NewNodes[1])) = 1
              /\ FixtureValsOf(NewNodes[1])[1].attrib.ID = <<"1">>

\* C24 witness: the state of fixture "9", which the rig with the channel
\* "red" does not have, with the map {"fog": 128, "Red": 300} has been
\* written as FixtureVal 9 with the payload 0,128,1,255.
C24_Witness ==
    /\ pc = "done" /\ HasEngine
    /\ UnknownFixture
    /\ RigPool[args.rig] = <<NamedFixture>>
    /\ FirstState = FixtureState("9", <<Item(<<"f", "o", "g">>, 128),
                                        Item(<<"R", "e", "d">>, 300)>>)
    /\ FirstVal.attrib.ID = <<"9">>
    /\ FirstVal.text = <<"0", ",", "1", "2", "8", ",", "1", ",", "2", "5", "5">>

-----------------------------------------------------------------------------
(* Claims about the colours apply_scene hands out.                         *)

\* The palette the scene names, as the store holds it ({} when it does not).
ScenePalette == Get(mapper.palettes, mapper.scene.palette, <<>>)
Clip3(rgb) == <<Clipped(rgb[1]), Clipped(rgb[2]), Clipped(rgb[3])>>

\* The colour the contract gives the target at position i (from 0).
ColourAt(i) ==
    IF Has(ScenePalette, "split")
    THEN IF i % 2 = 0
         THEN Clip3(Get(Get(ScenePalette, "split", <<>>), "left", <<255, 128, 64>>))
         ELSE Clip3(Get(Get(ScenePalette, "split", <<>>), "right", <<64, 160, 255>>))
    ELSE IF Has(ScenePalette, "cycle") /\ Get(ScenePalette, "cycle", <<>>) # <<>>
    THEN Clip3(Get(ScenePalette, "cycle", <<>>)
                  [(i % Len(Get(ScenePalette, "cycle", <<>>))) + 1])
    ELSE IF Has(ScenePalette, "rgb") THEN Clip3(Get(ScenePalette, "rgb", <<>>))
    ELSE <<255, 255, 255>>

\* The colour a state of a fixture of four or five channels carries.
ColourOf(state) ==
    <<Get(state.channel_values, Ch(1), -1), Get(state.channel_values, Ch(2), -1),
      Get(state.channel_values, Ch(3), -1)>>
ColourSeen(state) ==
    IF Len(state.channel_values) = 5 THEN ColourOf(state)
    ELSE <<ColourOf(state)[1], ColourOf(state)[2]>>
ColourDue(state, i) ==
    IF Len(state.channel_values) = 5 THEN ColourAt(i)
    ELSE <<ColourAt(i)[1], ColourAt(i)[2]>>

\* C25: the target at position i (from 0) gets: of a split palette the left
\* colour when i is even and the right colour when i is odd (255,128,64 and
\* 64,160,255 where the palette names none); of a cycle of k >= 1 colours
\* the colour i mod k; of a plain palette its rgb; white for a key the store
\* does not have, an empty cycle or a palette without a colour; each colour
\* with its components brought into 0..255.  There is one state per listed
\* fixture, in the order listed.
C25_ColourByPosition ==
    (pc = "applied" /\ mapper.fixture_categories # <<>>) =>
        LET states == mapper.result[1].states
            listed == mapper.fixture_categories[1].value
        IN  /\ Len(states) = Len(listed)
            /\ \A i \in 1..Len(states) :
                  /\ \E f \in 1..Len(mapper.rig) :
                        /\ mapper.rig[f].name = listed[i]
                        /\ mapper.rig[f].fixture_id = states[i].fixture_id
                  /\ ColourSeen(states[i]) = ColourDue(states[i], i - 1)

\* C25 witness: four targets and the cycle of three colours; the fourth
\* target carries the first colour again, the third the last colour with its
\* component -5 raised to 0.
C25_Witness ==
    /\ pc = "applied"
    /\ mapper.scene.palette = "rainbow"
    /\ Len(mapper.result[1].states) = 4
    /\ \A i \in 1..4 : Len(mapper.result[1].states[i].channel_values) = 5
    /\ ColourOf(mapper.result[1].states[1]) = <<255, 0, 0>>
    /\ ColourOf(mapper.result[1].states[3]) = <<0, 0, 255>>
    /\ ColourOf(mapper.result[1].states[4]) = <<255, 0, 0>>

-----------------------------------------------------------------------------
(* Claims about the channel map of one fixture.                            *)

\* round(energy / 5 * 255) for an integer energy is energy * 51.
Brightness(energy) ==
    IF energy * 51 < 30 THEN 30 ELSE IF energy * 51 > 255 THEN 255 ELSE energy * 51
Largest(rgb) == CHOOSE v \in Range(rgb) : \A w \in Range(rgb) : w <= v
Dict(values) == [k \in 1..Len(values) |-> Item(Ch(k - 1), values[k])]

\* C26: with intensity = energy * 51 kept within 30..255 (30 for an energy
\* of 0 or less, 255 for 5 or more) and r, g, b the colour brought into
\* 0..255, a fixture of 5 or more channels gets ch0 = intensity, ch1 = r,
\* ch2 = g, ch3 = b, ch4 = max(r, g, b); of 4 channels ch0 = intensity,
\* ch1 = r, ch2 = g, ch3 = max(r, g, b); of 3 channels r, g and b times the
\* intensity over 255, truncated, on ch0..ch2; of 1 channel ch0 = intensity;
\* of no channel an empty map; every value lies in 0..255.
C26_ChannelMap ==
    pc = "applied" =>
        LET energy == mapper.scene.energy
            n == channel_count(OneFixture)
            rgb == Clip3(RawRgb)
            intensity == Brightness(energy)
        IN  /\ Len(Result.states) = 1
            /\ energy <= 0 => intensity = 30
            /\ energy >= 5 => intensity = 255
            /\ n >= 5 => ChannelMap = Dict(<<intensity, rgb[1], rgb[2], rgb[3],
                                             Largest(rgb)>>)
            /\ n = 4 => ChannelMap = Dict(<<intensity, rgb[1], rgb[2], Largest(rgb)>>)
            /\ n = 3 => ChannelMap = Dict(<<(rgb[1] * intensity) \div 255,
                                            (rgb[2] * intensity) \div 255,
                                            (rgb[3] * intensity) \div 255>>)
            /\ n = 1 => ChannelMap = Dict(<<intensity>>)
            /\ n = 0 => ChannelMap = <<>>
            /\ \A k \in 1..Len(ChannelMap) : ChannelMap[k].value \in 0..255

\* C26 witness: energy 0 and the colour (300, -20, 100) on a fixture of five
\* channels give ch0 = 30, ch1 = 255, ch2 = 0, ch3 = 100, ch4 = 255.
C26_Witness ==
    /\ pc = "applied"
    /\ mapper.scene.energy = 0
    /\ channel_count(OneFixture) = 5
    /\ RawRgb = <<300, -20, 100>>
    /\ ChannelValues = <<30, 255, 0, 100, 255>>

-----------------------------------------------------------------------------
(* Claims about references apply_scene cannot resolve.                     *)

\* The names of a list that are the exact name of a rig fixture, in list
\* order.
Found(names) == SelectSeq(names, LAMBDA n : n \in Names(mapper.rig))
RECURSIVE FoundInAll(_)
FoundInAll(categories) ==
    IF categories = <<>> THEN <<>>
    ELSE Found(categories[1].value) \o FoundInAll(Tail(categories))

\* The names whose fixtures the focus aims at, in target order.
Aimed ==
    IF mapper.scene.focus \in {"mixed", "Mixed"} THEN FoundInAll(mapper.fixture_categories)
    ELSE IF Has(mapper.fixture_categories, mapper.scene.focus)
    THEN Found(Get(mapper.fixture_categories, mapper.scene.focus, <<>>))
    ELSE <<>>

\* C27: apply_scene returns a SceneSpec of type static whatever the names and
\* the focus refer to; a listed name that is the exact name of no rig fixture
\* is skipped; a focus other than "mixed" that is no category key gives no
\* FixtureState; otherwise there is one FixtureState per listed name that
\* names a fixture, in list order, with the id of a fixture of that name.
C27_MissingReferences ==
    pc = "applied" =>
        /\ mapper.result # None
        /\ Result.scene_type = "static"
        /\ Len(Result.states) = Len(Aimed)
        /\ \A k \in 1..Len(Aimed) :
              \E i \in 1..Len(mapper.rig) :
                  /\ mapper.rig[i].name = Aimed[k]
                  /\ mapper.rig[i].fixture_id = StateIds[k]
        /\ (mapper.scene.focus \notin {"mixed", "Mixed"}
              /\ ~Has(mapper.fixture_categories, mapper.scene.focus))
             => Result.states = <<>>

\* C27 witness: the category of the focus lists "Ghost", the name of no
\* fixture, and then the rig's second fixture; the one state is that
\* fixture's.
C27_Witness ==
    /\ pc = "applied"
    /\ mapper.scene.focus = "wash"
    /\ Len(mapper.rig) = 2
    /\ Get(mapper.fixture_categories, "wash", <<>>) = << <<"Ghost">>, <<"PAR 2">> >>
    /\ mapper.rig[2].name = <<"PAR 2">>
    /\ StateIds = <<"1">>

-----------------------------------------------------------------------------
(* Claims about a drop at low energy.                                      *)

LowDrop == context.energy < 3 /\ context.is_drop

\* C28: for a context with energy below 3 and is_drop set, no scene is left
\* once the wash and the drop filter have both run, so the choice is made
\* among the whole catalog: when the catalog is not empty a scene is
\* returned, and every scene of the catalog can be the one, whatever its
\* energy, name, palette and strobe.
C28_LowDropRelaxes ==
    LowDrop =>
        /\ pc \in {"strobe", "relax"} => candidates = <<>>
        /\ pc \in {"choice", "returned"} => candidates = catalog
        /\ pc = "choice" =>
              \A i \in 1..Len(catalog) :
                  \E t \in 0..(Total(candidates, context.energy) - 1) :
                      ChoiceFor(candidates, context.energy, t) = catalog[i]
        /\ pc = "returned" =>
              /\ (chosen = None) <=> (catalog = <<>>)
              /\ chosen # None => chosen[1] \in Range(catalog)

\* C28 witness: at energy 2, in a drop, with strobes not allowed, the scene
\* returned has energy 4 and a fast strobe, and repeats the last scene and
\* the last palette, while the catalog also holds a wash scene of energy 2.
C28_Witness ==
    /\ pc = "returned"
    /\ context.energy = 2 /\ context.is_drop /\ ~context.strobe_allowed
    /\ chosen # None
    /\ chosen[1].energy = 4
    /\ chosen[1].strobe = "fast"
    /\ context.last_scene = Some(chosen[1].name)
    /\ context.last_palette = Some(chosen[1].palette)
    /\ \E i \in 1..Len(catalog) : catalog[i].focus = "wash" /\ catalog[i].energy = 2

-----------------------------------------------------------------------------
(* Claims about focus "mixed" and overlapping categories.                  *)

\* The keys the loaded categories have: every category of the file, and
\* every alias whose target is one.
LoadedKeys ==
    { mapper.categories_file.categorias[i].key :
        i \in 1..Len(mapper.categories_file.categorias) }
    \cup { mapper.categories_file.aliases[i].key :
             i \in { j \in 1..Len(mapper.categories_file.aliases) :
                       Has(mapper.categories_file.categorias,
                           mapper.categories_file.aliases[j].value) } }

\* The list a key stands for: that of the alias's target when the key is an
\* alias of a category, else the category's own.
ListOf(key) ==
    IF \E i \in 1..Len(mapper.categories_file.aliases) :
          /\ mapper.categories_file.aliases[i].key = key
          /\ Has(mapper.categories_file.categorias, mapper.categories_file.aliases[i].value)
    THEN Get(mapper.categories_file.categorias,
             Get(mapper.categories_file.aliases, key, ""), <<>>)
    ELSE Get(mapper.categories_file.categorias, key, <<>>)

\* The sum of f[x] over the x in S
RECURSIVE SumOver(_, _)
SumOver(S, f) ==
    IF S = {} THEN 0
    ELSE LET x == CHOOSE y \in S : TRUE IN f[x] + SumOver(S \ {x}, f)

Listings == SumOver(LoadedKeys, [key \in LoadedKeys |-> Len(Found(ListOf(key)))])
ListingsOf(n) == SumOver(LoadedKeys, [key \in LoadedKeys |-> CountIn(ListOf(key), n)])

\* C29: with focus "mixed" the loaded categories hold one key per category
\* and per alias of a category, an alias standing for its category's list;
\* the SceneSpec has as many states as the lists of all keys name fixtures,
\* and each fixture has one state for every time a list names it, so a
\* fixture named under m keys has m states.
C29_MixedKeepsDuplicates ==
    (pc \in {"apply", "applied"} /\ "categories_file" \in DOMAIN mapper
       /\ mapper.categories_file.ok) =>
        /\ { mapper.fixture_categories[i].key : i \in 1..Len(mapper.fixture_categories) }
             = LoadedKeys
        /\ \A i \in 1..Len(mapper.fixture_categories) :
              mapper.fixture_categories[i].value = ListOf(mapper.fixture_categories[i].key)
        /\ pc = "applied" =>
              /\ Len(Result.states) = Listings
              /\ \A f \in 1..Len(mapper.rig) :
                    CountIn(StateIds, mapper.rig[f].fixture_id)
                    = ListingsOf(mapper.rig[f].name)

\* C29 witness: "wash" lists PAR 1 and the alias "lavado" stands for
\* "wash"; on the rig of PAR 1 and PAR 2 the scene has two states, both of
\* PAR 1.
C29_Witness ==
    /\ pc = "applied" /\ "categories_file" \in DOMAIN mapper
    /\ mapper.categories_file.categorias = <<Item("wash", << <<"PAR 1">> >>)>>
    /\ mapper.categories_file.aliases = <<Item("lavado", "wash")>>
    /\ Len(mapper.rig) = 2
    /\ StateIds = <<"0", "0">>

-----------------------------------------------------------------------------
(* Claims about the references between the new Functions.                  *)

\* The ids a new node refers to: a Show's Track SceneID and the ID of each
\* of its ShowFunctions, a Chaser's Step texts; a Scene refers to none.
References(node) ==
    IF node.attrib.Type = <<"Show">>
    THEN { Tagged(node, "Track")[t].attrib.SceneID : t \in 1..Len(Tagged(node, "Track")) }
         \cup { Members(node)[k].attrib.ID : k \in 1..Len(Members(node)) }
    ELSE IF node.attrib.Type = <<"Chaser">>
    THEN { Tagged(node, "Step")[k].text : k \in 1..Len(Tagged(node, "Step")) }
    ELSE {}

\* The place of an id in the order of creation, 0 for an id the call did
\* not create.
CreatedAt(id) ==
    IF \E j \in 1..Len(created) : created[j].ID = id
    THEN Least({j \in 1..Len(created) : created[j].ID = id})
    ELSE 0

\* The ids of the Function nodes of the written document.
WrittenIds ==
    { WrittenChildren[k].attrib.ID :
        k \in {j \in 1..Len(WrittenChildren) :
                  /\ WrittenChildren[j].tag = "Function"
                  /\ "ID" \in DOMAIN WrittenChildren[j].attrib} }

\* C30: in the written document every id that a new Show (Track SceneID,
\* ShowFunction ID) or a new Chaser (Step) refers to is the id of a Function
\* the same call created before the referring node, is smaller than the
\* referring node's id, is the id of no Function of the source and is the
\* id of a Function of the written document.
C30_ReferencesResolve ==
    (pc = "done" /\ HasEngine) =>
        \A p \in 1..Len(NewNodes) :
            \A r \in References(NewNodes[p]) :
                /\ CreatedAt(r) >= 1
                /\ CreatedAt(r) < CreatedAt(NewNodes[p].attrib.ID)
                /\ Int_(r) < Int_(NewNodes[p].attrib.ID)
                /\ Int_(r) \notin SourceIds
                /\ r \in WrittenIds

\* C30 witness: the source has Functions 0 and 5 and every option is on;
\* the Show of the two scenes refers to 6 and 7, the flash Chaser 11 to the
\* Scenes 9 and 10 and its Show 12 to the Chaser.
C30_Witness ==
    /\ pc = "done" /\ HasEngine
    /\ SourceIds = {0, 5}
    /\ args.create_show /\ args.create_flash_chaser /\ args.create_primary_sweep
    /\ Len(NewNodes) >= 5
    /\ NewNodes[3].attrib.ID = <<"8">>
    /\ References(NewNodes[3]) = {<<"6">>, <<"7">>}
    /\ \E p, q \in 1..Len(NewNodes) :
          /\ NewNodes[p].attrib.Type = <<"Chaser">>
          /\ NewNodes[p].attrib.ID = <<"1", "1">>
          /\ References(NewNodes[p]) = {<<"9">>, <<"1", "0">>}
          /\ NewNodes[q].attrib.Type = <<"Show">>
          /\ References(NewNodes[q]) = {<<"1", "1">>}

====
